---- MODULE Spec2Model ----
(***************************************************************************)
(* Session driver, simulator adapter and websocket transport loop of the   *)
(* bonsai simulator client.                                                *)
(*                                                                         *)
(* A call of Driver.next is one step.  The handler's code is written as a  *)
(* composition of operators over a "world" record w that carries the       *)
(* driver state, the adapter (SimulatorConnection) fields, the simulator   *)
(* fields, the reply under construction, the trace of callbacks made       *)
(* during the call and the exception raised, if any.  Once w.raised is     *)
(* set, the remaining statements of the handler are skipped, as a Python   *)
(* raise skips them; assignments made before the raise persist.            *)
(*                                                                         *)
(* Optional Python values (None or a value) are the sequences << >> and    *)
(* << v >>.                                                                *)
(***************************************************************************)
EXTENDS Integers, Sequences, FiniteSets, TLC

VARIABLES
    variant,        \* which Driver subclass was constructed
    fills,          \* whether the injected generate_state_message appends an entry
    _state,         \* Driver._state
    conn,           \* SimulatorConnection fields
    sim,            \* Simulator fields
    incoming,       \* argument of the last call of next
    pre,            \* Driver._state when the last call of next began
    result,         \* outcome of the last call of next: [raised, reply]
    calls,          \* adapter and simulator callbacks made by the last call of next
    outgoing,       \* types of the messages returned by next so far, in order
    ncalls,         \* number of calls of next so far
    ws,             \* websocket transport: [status, sent, received, error]
    recording_file, \* whether _Runner.recording_file is set
    recording_queue, \* _Runner.recording_queue
    hash,           \* the builtin hash of this process, on field tuple sequences
    pool,           \* _message_factory.pool: the descriptors added, in order
    binder,         \* per thread that calls reconstitute: its position and locals
    bound,          \* the calls of reconstitute that returned: [d, cls], in order
    loop,           \* which event loop module runs the driver
    access_key,     \* whether _Runner.access_key is set
    co,             \* the run coroutine of a tornado or asyncio loop: [pc]
    connects,       \* number of connection attempts made by run
    recorder,       \* the record_to_file task: [pc, read, out]
    input,          \* arguments of the function under study
    output          \* what the function under study returned, once called

bvars == <<hash, pool, binder, bound>>

tvars == <<loop, access_key, co, connects, recorder>>

pvars == <<input, output>>

dvars == <<variant, fills, _state, conn, sim, incoming, pre, result, calls,
           outgoing, ncalls, ws, recording_file, recording_queue>>

vars == <<variant, fills, _state, conn, sim, incoming, pre, result, calls,
          outgoing, ncalls, ws, recording_file, recording_queue, hash, pool,
          binder, bound, loop, access_key, co, connects, recorder, input,
          output>>

-----------------------------------------------------------------------------
(* Bounds of the model *)

MaxCalls == 5       \* calls of next in one behaviour
MaxBatch == 2       \* prediction_data entries in one PREDICTION message
MaxStep  == 2       \* simulator steps counted within an episode
MaxBinds == 2       \* calls of reconstitute by one thread
MaxFields == 2      \* fields of a schema handed to convert_state_to_proto
MaxKeys == 2        \* keys of a state handed to convert_state_to_proto
HashBits == 1       \* width of a hash value (64 in CPython)
MaxTurns == 4       \* turns of the while loop in one run of a coroutine loop

-----------------------------------------------------------------------------
(* DriverState *)

UNREGISTERED == 0
REGISTERING  == 10
REGISTERED   == 20
ACTIVE       == 30
FINISHED     == 40

None == << >>
Some(x) == << x >>
IsNone(o) == o = << >>
Value(o) == o[1]

NoError == "NoError"
Raised(w) == w.raised # NoError
Raise(w, e) == IF Raised(w) THEN w ELSE [w EXCEPT !.raised = e]
Call(w, obj, fn, arg) ==
    [w EXCEPT !.calls = Append(@, [obj |-> obj, fn |-> fn, arg |-> arg])]

-----------------------------------------------------------------------------
(* Descriptors received from the server, and the schema binder *)

Field(n, t, tn) ==
    [name |-> n, number |-> 1, label |-> "LABEL_OPTIONAL", type |-> t,
     type_name |-> tn]

LuminanceType == "bonsai.inkling_types.proto.Luminance"
KnownTypes == {LuminanceType}

PropertiesDescriptor == [name |-> "Props", field |-> << >>]
OutputDescriptor == [name |-> "State", field |-> <<Field("a", "INT32", "")>>]
PredictionDescriptor == [name |-> "Pred", field |-> <<Field("b", "FLOAT", "")>>]
PredictionDescriptor2 ==
    [name |-> "Pred",
     field |-> <<Field("b", "FLOAT", ""),
                 [Field("c", "FLOAT", "") EXCEPT !.number = 2]>>]
UnknownRefDescriptor ==
    [name |-> "Bad", field |-> <<Field("img", "MESSAGE", "x.Unknown")>>]

\* elements: the tuple of the field tuples of a descriptor
Elements(descriptor_proto) ==
    [i \in 1..Len(descriptor_proto.field) |->
        <<descriptor_proto.field[i].name, descriptor_proto.field[i].number,
          descriptor_proto.field[i].label, descriptor_proto.field[i].type,
          descriptor_proto.field[i].type_name>>]

\* 'p{}'.format(hash(elements))
_create_package_from_fields(descriptor_proto) ==
    <<"p", hash[Elements(descriptor_proto)]>>

\* A pool that resolves every type name.
Resolvable_any_name(descriptor_proto) == TRUE

Resolvable(descriptor_proto) ==
    \A i \in 1..Len(descriptor_proto.field) :
        descriptor_proto.field[i].type = "MESSAGE"
            => descriptor_proto.field[i].type_name \in KnownTypes

\* The class for a descriptor, or None when the pool cannot build it.
reconstitute(descriptor_proto) ==
    LET name == IF descriptor_proto.name = ""
                THEN "__INTERNAL_ANONYMOUS__" ELSE descriptor_proto.name
        package == _create_package_from_fields(descriptor_proto)
    IN  IF Resolvable(descriptor_proto)
        THEN Some([full_name |-> <<package, name>>,
                   fields |-> descriptor_proto.field])
        ELSE None

FieldNames(cls) == {cls.fields[i].name : i \in 1..Len(cls.fields)}

-----------------------------------------------------------------------------
(* The schema binder on the shared pool, step by step *)

AnonymousName == "__INTERNAL_ANONYMOUS__"

\* The descriptors handed to reconstitute: four names (the empty one and
\* the name given to anonymous schemas among them) with two field lists,
\* and one that refers to a type the pool does not know.
BindNames == {"", AnonymousName, "A", "B"}
BindFields == {OutputDescriptor.field, PredictionDescriptor.field}
Descriptors ==
    {[name |-> n, field |-> f] : n \in BindNames, f \in BindFields}
    \cup {UnknownRefDescriptor}

\* Two threads that race bind one of two descriptors.
RaceDescriptors ==
    {[name |-> n, field |-> OutputDescriptor.field] : n \in {"A", "B"}}

\* The values of hash, and the tuples it is applied to.
HashValues == 0..(2 ^ HashBits - 1)
AllElements ==
    {Elements(d) : d \in Descriptors \cup
        {PropertiesDescriptor, OutputDescriptor, PredictionDescriptor,
         PredictionDescriptor2, UnknownRefDescriptor}}

\* hash is fixed when the process starts; it is any function onto the
\* hash values (here let vary on the field lists the binder is handed).
Hashes ==
    {h \in [AllElements -> HashValues] :
        \A e \in AllElements :
            e \notin {Elements([field |-> f]) : f \in BindFields}
                => h[e] = IF e = Elements(PredictionDescriptor2) THEN 1 ELSE 0}

\* A process in which hash separates the two prediction schemas (which
\* share their name) that a session binds.
SessionHash ==
    CHOOSE h \in Hashes :
        h[Elements(PredictionDescriptor)] # h[Elements(PredictionDescriptor2)]

\* if not descriptor_proto.name: descriptor_proto.name = <anonymous>
NameOf(descriptor_proto) ==
    IF descriptor_proto.name = "" THEN AnonymousName
    ELSE descriptor_proto.name

\* full_name = '{}.{}'.format(package, descriptor_proto.name)
FullName(descriptor_proto) ==
    <<_create_package_from_fields(descriptor_proto), NameOf(descriptor_proto)>>

\* A lookup that never finds what was added.
FindMessageTypeByName_misses(p, full_name) == None

\* pool.FindMessageTypeByName(full_name): the descriptor last built under
\* that name, or None (KeyError).
FindMessageTypeByName(p, full_name) ==
    LET hits == {i \in 1..Len(p) : p[i].full_name = full_name}
    IN  IF hits = {} THEN None
        ELSE Some(p[CHOOSE i \in hits : \A j \in hits : j <= i])

\* The descriptor built from a file added to the pool; file stands for the
\* uuid4 in the name of the file.
NewDescriptor(p, descriptor_proto) ==
    [full_name |-> FullName(descriptor_proto),
     fields |-> descriptor_proto.field,
     file |-> Len(p) + 1]

Idle == [pc |-> "idle", d |-> None, descriptor |-> None, cls |-> None,
         raised |-> NoError, n |-> 0]

\* reconstitute(d) is called (lines 100-107).
BindCall(t) ==
    /\ binder[t].pc = "idle"
    /\ binder[t].n < MaxBinds
    /\ \E d \in (IF Cardinality(DOMAIN binder) = 1 THEN Descriptors
                  ELSE RaceDescriptors) :
          binder' = [binder EXCEPT
                       ![t] = [pc |-> "find", d |-> Some(d),
                               descriptor |-> None, cls |-> None,
                               raised |-> NoError, n |-> @.n + 1]]
    /\ UNCHANGED <<dvars, tvars, pvars, hash, pool, bound>>

\* _make_descriptor: the descriptor may already exist, look for it first.
BindFind(t) ==
    /\ binder[t].pc = "find"
    /\ LET found == FindMessageTypeByName(pool,
                                          FullName(Value(binder[t].d)))
       IN  binder' = [binder EXCEPT
                        ![t].pc = IF IsNone(found) THEN "add" ELSE "built",
                        ![t].descriptor = found]
    /\ UNCHANGED <<dvars, tvars, pvars, hash, pool, bound>>

\* _make_descriptor: pool.Add(file_descriptor_proto), FindFileByName.  A
\* field of an unknown type cannot be built.  A file that defines a name
\* the pool already holds is refused by one implementation of the pool and
\* built into a second descriptor by the other.
BindAdd(t) ==
    /\ binder[t].pc = "add"
    /\ LET d == Value(binder[t].d)
           new == NewDescriptor(pool, d)
           fail(e) == /\ binder' = [binder EXCEPT ![t].pc = "idle",
                                                  ![t].raised = e]
                      /\ pool' = pool
           add == /\ binder' = [binder EXCEPT ![t].pc = "built",
                                              ![t].descriptor = Some(new)]
                  /\ pool' = Append(pool, new)
       IN  IF ~Resolvable(d) THEN fail("BindError")
           ELSE IF IsNone(FindMessageTypeByName(pool, FullName(d))) THEN add
           ELSE fail("TypeError") \/ add
    /\ UNCHANGED <<dvars, tvars, pvars, hash, bound>>

\* The classes GetPrototype can return for a descriptor: the class of the
\* descriptor itself, or, where the factory keeps its classes by full name,
\* the class already made for another descriptor of that full name.
GetPrototype(descriptor) ==
    {descriptor} \cup
    {bound[i].cls : i \in {j \in 1..Len(bound) :
                        bound[j].cls.full_name = descriptor.full_name}}

\* reconstitute: cls = _message_factory.GetPrototype(descriptor); return
BindReturn(t) ==
    /\ binder[t].pc = "built"
    /\ \E cls \in GetPrototype(Value(binder[t].descriptor)) :
        /\ binder' = [binder EXCEPT ![t].pc = "idle", ![t].cls = Some(cls)]
        /\ bound' = Append(bound, [d |-> Value(binder[t].d), cls |-> cls])
    /\ UNCHANGED <<dvars, tvars, pvars, hash, pool>>

-----------------------------------------------------------------------------
(* ServerToSimulator messages *)

ServerTypes == {"ACKNOWLEDGE_REGISTER", "SET_PROPERTIES", "START", "STOP",
                "PREDICTION", "RESET", "FINISHED"}

AckGood == [properties_schema |-> PropertiesDescriptor,
            output_schema |-> OutputDescriptor,
            prediction_schema |-> PredictionDescriptor,
            sim_id |-> 7]
AckBad  == [properties_schema |-> PropertiesDescriptor,
            output_schema |-> UnknownRefDescriptor,
            prediction_schema |-> PredictionDescriptor,
            sim_id |-> 8]
AcknowledgeRegisterData == {AckGood, AckBad}

SetPropertiesData ==
    {[dynamic_properties |-> 1, reward_name |-> "r",
      prediction_schema |-> PredictionDescriptor],
     [dynamic_properties |-> 2, reward_name |-> "",
      prediction_schema |-> PredictionDescriptor2],
     [dynamic_properties |-> 3, reward_name |-> "r",
      prediction_schema |-> UnknownRefDescriptor]}

PredictionData == {[dynamic_prediction |-> v] : v \in 1..2}

\* Batches of up to MaxBatch entries in which neighbouring entries differ,
\* so that the order of the entries shows in the reply.
Alternating(v, n) ==
    [i \in 1..n |-> [dynamic_prediction |-> IF i % 2 = 1 THEN v ELSE 3 - v]]

PredictionBatches ==
    {<< >>} \cup {Alternating(v, n) : v \in 1..2, n \in 1..MaxBatch}

ServerToSimulator(t, ack, props, preds) ==
    [message_type |-> t, acknowledge_register_data |-> ack,
     set_properties_data |-> props, prediction_data |-> preds]

\* Every message type, bare or with one sub-payload (of its own kind or not),
\* and the message that a frame with no field the protocol knows parses
\* to: its type is the default one.
Messages ==
    {ServerToSimulator(t, None, None, << >>) :
        t \in ServerTypes \cup {"UNKNOWN"}}
    \cup {ServerToSimulator(t, Some(a), None, << >>) :
            t \in {"ACKNOWLEDGE_REGISTER", "START"},
            a \in AcknowledgeRegisterData}
    \cup {ServerToSimulator(t, None, Some(p), << >>) :
            t \in {"SET_PROPERTIES"}, p \in SetPropertiesData}
    \cup {ServerToSimulator("PREDICTION", None, None, b) :
            b \in PredictionBatches \ {<< >>}}
    \cup {ServerToSimulator("START", None, None, Alternating(1, 1))}

\* What next may be handed: None or a message.
Incoming == {None} \cup {Some(m) : m \in Messages}

-----------------------------------------------------------------------------
(* SimulatorToServer messages *)

SimulatorName == "cartpole"

SimulatorToServer ==
    [message_type |-> "UNKNOWN", sim_id |-> None, register_data |-> None,
     state_data |-> << >>]

-----------------------------------------------------------------------------
(* Simulator (the Simulation subclass of bonsai.simulator.Simulator) *)

SimCall(w, fn, arg) == Call(w, "simulator", fn, arg)

set_properties(w, kwargs) ==
    IF Raised(w) THEN w
    ELSE [SimCall(w, "set_properties", Some(kwargs)) EXCEPT
            !.sim.properties = Some(kwargs)]

start(w) == IF Raised(w) THEN w ELSE SimCall(w, "start", None)

stop(w) == IF Raised(w) THEN w ELSE SimCall(w, "stop", None)

\* A reset that forgets the last action along with the episode.
reset_clears_last_action(w) ==
    IF Raised(w) THEN w
    ELSE [SimCall(w, "reset", None) EXCEPT
            !.sim.t = 0, !.sim.terminal = FALSE, !.sim._last_actions = None]

reset(w) ==
    IF Raised(w) THEN w
    ELSE [SimCall(w, "reset", None) EXCEPT
            !.sim.t = 0, !.sim.terminal = FALSE]

notify_prediction_received(w, predictions) ==
    IF Raised(w) THEN w
    ELSE [SimCall(w, "notify_prediction_received", Some(predictions)) EXCEPT
            !.sim._last_actions = Some(predictions)]

\* simulate is supplied by the user of Simulation: the outcome of the step
\* (whether the episode has ended) is read from the oracle of the call.
sim_advance(w, actions) ==
    IF Raised(w) THEN w
    ELSE LET v == SimCall(w, "advance", actions)
         IN  IF w.sim.terminal
             THEN [reset(v) EXCEPT !.k = @ + 1]
             ELSE [v EXCEPT
                     !.sim.t = IF @ < MaxStep THEN @ + 1 ELSE @,
                     !.sim.terminal = w.oracle.terminal[w.k + 1],
                     !.k = @ + 1]

\* The SimState that get_state returns: the state map (its keys and a value
\* standing for its content) and is_terminal.
SimState(w) ==
    [state |-> [keys |-> IF w.oracle.complete THEN {"a"} ELSE {},
                val |-> w.sim.t],
     is_terminal |-> w.sim.terminal]

-----------------------------------------------------------------------------
(* State projector *)

\* The serialized message, or None when a schema field is not a key of the
\* mapping (SimStateException).
convert_state_to_proto(cls, state) ==
    IF FieldNames(cls) \subseteq state.keys
    THEN Some([type |-> cls.full_name, val |-> state.val])
    ELSE None

\* cls().ParseFromString(bytes), read back as a dictionary keyed by the
\* fields of cls.
ParseFromString(cls, bytes) == [keys |-> FieldNames(cls), val |-> bytes]

-----------------------------------------------------------------------------
(* SimulatorConnection: the adapter between the driver and the simulator *)

ConnCall(w, fn, arg) == Call(w, "connection", fn, arg)

\* self.<attr> = reconstitute(descriptor)
Bind(w, attr, descriptor) ==
    IF Raised(w) THEN w
    ELSE IF IsNone(reconstitute(descriptor))
         THEN Raise(w, "BindError")
         ELSE [w EXCEPT !.conn[attr] = reconstitute(descriptor)]

\* A register message filled in as a READY.
generate_register_message_wrong_type(w) ==
    IF Raised(w) THEN w
    ELSE [ConnCall(w, "generate_register_message", None) EXCEPT
            !.reply.message_type = "READY",
            !.reply.register_data =
                Some([simulator_name |-> SimulatorName])]

generate_register_message(w) ==
    IF Raised(w) THEN w
    ELSE [ConnCall(w, "generate_register_message", None) EXCEPT
            !.reply.message_type = "REGISTER",
            !.reply.register_data =
                Some([simulator_name |-> SimulatorName])]

\* The session id of the acknowledgement replaced by a fixed one.
handle_register_acknowledgement_fixed_id(w, message) ==
    IF Raised(w) THEN w
    ELSE LET w0 == ConnCall(w, "handle_register_acknowledgement",
                            Some(message))
             w1 == Bind(w0, "_properties_schema", message.properties_schema)
             w2 == Bind(w1, "_output_schema", message.output_schema)
             w3 == Bind(w2, "_prediction_schema", message.prediction_schema)
         IN  IF Raised(w3) THEN w3
             ELSE [w3 EXCEPT !.conn._simulator_id = Some(1)]

handle_register_acknowledgement(w, message) ==
    IF Raised(w) THEN w
    ELSE LET w0 == ConnCall(w, "handle_register_acknowledgement",
                            Some(message))
             w1 == Bind(w0, "_properties_schema", message.properties_schema)
             w2 == Bind(w1, "_output_schema", message.output_schema)
             w3 == Bind(w2, "_prediction_schema", message.prediction_schema)
         IN  IF Raised(w3) THEN w3
             ELSE [w3 EXCEPT !.conn._simulator_id = Some(message.sim_id)]

\* The prediction schema of the acknowledgement kept for the whole session.
handle_set_properties_message_keeps_schema(w, message) ==
    IF Raised(w) THEN w
    ELSE LET w0 == ConnCall(w, "handle_set_properties_message",
                            Some(message))
         IN  IF IsNone(w0.conn._properties_schema)
             THEN Raise(w0, "TypeError")
             ELSE LET properties ==
                          ParseFromString(Value(w0.conn._properties_schema),
                                          message.dynamic_properties)
                      w1 == set_properties(w0, properties)
                  IN  IF Raised(w1) THEN w1
                      ELSE [w1 EXCEPT !.conn._current_reward_name =
                                          Some(message.reward_name)]

handle_set_properties_message(w, message) ==
    IF Raised(w) THEN w
    ELSE LET w0 == ConnCall(w, "handle_set_properties_message",
                            Some(message))
         IN  IF IsNone(w0.conn._properties_schema)
             THEN Raise(w0, "TypeError")
             ELSE LET properties ==
                          ParseFromString(Value(w0.conn._properties_schema),
                                          message.dynamic_properties)
                      w1 == set_properties(w0, properties)
                      w2 == [w1 EXCEPT !.conn._current_reward_name =
                                           Some(message.reward_name)]
                  IN  Bind(w2, "_prediction_schema",
                           message.prediction_schema)

\* The action_taken of a state_data entry: absent when the simulator has no
\* last action, else that action serialized with the prediction schema.
ActionTaken(w) ==
    IF IsNone(w.sim._last_actions) THEN [raised |-> NoError, value |-> None]
    ELSE IF IsNone(w.conn._prediction_schema)
    THEN [raised |-> "TypeError", value |-> None]
    ELSE LET bytes == convert_state_to_proto(
                          Value(w.conn._prediction_schema),
                          Value(w.sim._last_actions))
         IN  IF IsNone(bytes)
             THEN [raised |-> "SimStateException", value |-> None]
             ELSE [raised |-> NoError, value |-> bytes]

generate_state_message(w) ==
    IF Raised(w) THEN w
    ELSE LET w0 == [ConnCall(w, "generate_state_message", None) EXCEPT
                       !.reply.message_type = "STATE"]
         IN
         IF IsNone(w0.conn._simulator_id) THEN Raise(w0, "TypeError")
         ELSE
         LET w1 == [SimCall(w0, "get_state", None) EXCEPT
                       !.reply.sim_id = w0.conn._simulator_id]
             state == SimState(w1)
             named == /\ ~IsNone(w1.conn._current_reward_name)
                      /\ Value(w1.conn._current_reward_name) # ""
             w2 == IF named
                   THEN SimCall(w1, Value(w1.conn._current_reward_name), None)
                   ELSE w1
             reward == IF named THEN 1 ELSE 0
         IN
         IF IsNone(w2.conn._output_schema) THEN Raise(w2, "TypeError")
         ELSE
         LET bytes == convert_state_to_proto(Value(w2.conn._output_schema),
                                             state.state)
             w3 == SimCall(w2, "get_last_action", None)
             action == ActionTaken(w3)
         IN  IF IsNone(bytes) THEN Raise(w2, "SimStateException")
             ELSE IF action.raised # NoError THEN Raise(w3, action.raised)
             ELSE [w3 EXCEPT !.reply.state_data =
                      Append(@, [state |-> Value(bytes),
                                 reward |-> reward,
                                 terminal |-> state.is_terminal,
                                 action_taken |-> action.value])]

\* The driver is handed its adapter (simulator_connection_class is an
\* argument of the run functions): SimulatorConnection, or when fills is
\* FALSE another implementation of the protocol, whose
\* generate_state_message marks the message as STATE and appends no entry.
protocol_generate_state_message(w) ==
    IF Raised(w) THEN w
    ELSE IF w.fills THEN generate_state_message(w)
    ELSE [ConnCall(w, "generate_state_message", None) EXCEPT
            !.reply.message_type = "STATE"]

handle_start_message(w) ==
    IF Raised(w) THEN w
    ELSE start(ConnCall(w, "handle_start_message", None))

handle_stop_message(w) ==
    IF Raised(w) THEN w
    ELSE stop(ConnCall(w, "handle_stop_message", None))

handle_prediction_message(w, message) ==
    IF Raised(w) THEN w
    ELSE LET w0 == ConnCall(w, "handle_prediction_message", Some(message))
         IN  IF IsNone(w0.conn._prediction_schema)
             THEN Raise(w0, "TypeError")
             ELSE notify_prediction_received(
                      w0,
                      ParseFromString(Value(w0.conn._prediction_schema),
                                      message.dynamic_prediction))

handle_finish_message(w) ==
    IF Raised(w) THEN w
    ELSE ConnCall(w, "handle_finish_message", None)

handle_reset_message(w) ==
    IF Raised(w) THEN w
    ELSE reset(ConnCall(w, "handle_reset_message", None))

advance(w) ==
    IF Raised(w) THEN w
    ELSE LET w0 == ConnCall(w, "advance", None)
             w1 == SimCall(w0, "get_last_action", None)
         IN  sim_advance(w1, w1.sim._last_actions)

\* A READY that also reports a state.
generate_ready_message_with_state(w) ==
    IF Raised(w) THEN w
    ELSE LET w0 == [ConnCall(w, "generate_ready_message", None) EXCEPT
                       !.reply.message_type = "READY"]
         IN  IF IsNone(w0.conn._simulator_id) THEN Raise(w0, "TypeError")
             ELSE [w0 EXCEPT !.reply.sim_id = w0.conn._simulator_id,
                             !.reply.state_data =
                                 Append(@, [state |-> w0.sim.t])]

generate_ready_message(w) ==
    IF Raised(w) THEN w
    ELSE LET w0 == [ConnCall(w, "generate_ready_message", None) EXCEPT
                       !.reply.message_type = "READY"]
         IN  IF IsNone(w0.conn._simulator_id) THEN Raise(w0, "TypeError")
             ELSE [w0 EXCEPT !.reply.sim_id = w0.conn._simulator_id]

-----------------------------------------------------------------------------
(* Driver handlers.  message is the argument of next: None or << m >>.     *)

NewReply(w) == IF Raised(w) THEN w ELSE [w EXCEPT !.reply = SimulatorToServer]
Return(w) == IF Raised(w) THEN w ELSE [w EXCEPT !.ret = Some(w.reply)]
SetState(w, s) == IF Raised(w) THEN w ELSE [w EXCEPT !.st = s]

\* if reply.message_type != expected: raise UnexpectedMessageError
ExpectReply(w, expected) ==
    IF Raised(w) THEN w
    ELSE IF w.reply.message_type # expected
         THEN Raise(w, "UnexpectedMessageError")
         ELSE w

\* A FINISHED driver that wakes up again.
_do_nothing_reactivates(w, message) == SetState(w, ACTIVE)

_do_nothing(w, message) == w

_send_register_message(w, message) ==
    Return(generate_register_message(NewReply(SetState(w, REGISTERING))))

\* The acknowledgement answered without being handed to the adapter.
_handle_registration_acknowledgement_skips_handler(w, message) ==
    IF IsNone(message) THEN Raise(w, "EmptyMessageError")
    ELSE IF IsNone(Value(message).acknowledge_register_data)
    THEN Raise(w, "MalformedMessageError")
    ELSE LET w1 == SetState(w, ACTIVE)
             w3 == generate_ready_message(NewReply(w1))
         IN  Return(ExpectReply(w3, "READY"))

_handle_registration_acknowledgement(w, message) ==
    IF IsNone(message) THEN Raise(w, "EmptyMessageError")
    ELSE IF IsNone(Value(message).acknowledge_register_data)
    THEN Raise(w, "MalformedMessageError")
    ELSE LET w1 == SetState(w, ACTIVE)
             w2 == handle_register_acknowledgement(
                       w1, Value(Value(message).acknowledge_register_data))
             w3 == generate_ready_message(NewReply(w2))
         IN  Return(ExpectReply(w3, "READY"))

_handle_set_properties_message(w, message) ==
    IF IsNone(Value(message).set_properties_data)
    THEN Raise(w, "MalformedMessageError")
    ELSE LET w1 == handle_set_properties_message(
                       w, Value(Value(message).set_properties_data))
             w2 == generate_ready_message(NewReply(w1))
         IN  Return(ExpectReply(w2, "READY"))

\* The state read before the simulator is started.
_handle_start_message_reads_first(w, message) ==
    LET w1 == protocol_generate_state_message(NewReply(w))
        w2 == ExpectReply(handle_start_message(w1), "STATE")
    IN  IF Raised(w2) THEN w2
        ELSE IF Len(w2.reply.state_data) = 0
             THEN Raise(w2, "MalformedMessageError")
             ELSE Return(w2)

_handle_start_message(w, message) ==
    LET w1 == handle_start_message(w)
        w2 == ExpectReply(protocol_generate_state_message(NewReply(w1)),
                          "STATE")
    IN  IF Raised(w2) THEN w2
        ELSE IF Len(w2.reply.state_data) = 0
             THEN Raise(w2, "MalformedMessageError")
             ELSE Return(w2)

\* STOP routed to the reset handler.
_handle_stop_message_resets(w, message) ==
    LET w1 == handle_reset_message(w)
        w2 == generate_ready_message(NewReply(w1))
    IN  Return(ExpectReply(w2, "READY"))

_handle_stop_message(w, message) ==
    LET w1 == handle_stop_message(w)
        w2 == generate_ready_message(NewReply(w1))
    IN  Return(ExpectReply(w2, "READY"))

\* Only the first entry of the batch is processed.
ForEachPrediction_first_only(w, prediction_data) ==
    IF prediction_data = << >> THEN w
    ELSE protocol_generate_state_message(
             advance(handle_prediction_message(w, Head(prediction_data))))

\* for prediction in message.prediction_data: handle, advance, generate
RECURSIVE ForEachPrediction(_, _)
ForEachPrediction(w, prediction_data) ==
    IF prediction_data = << >> THEN w
    ELSE ForEachPrediction(
             protocol_generate_state_message(
                 advance(
                     handle_prediction_message(w, Head(prediction_data)))),
             Tail(prediction_data))

_handle_prediction_message(w, message) ==
    IF IsNone(message) THEN Raise(w, "EmptyMessageError")
    ELSE IF Len(Value(message).prediction_data) = 0
    THEN Raise(w, "MalformedMessageError")
    ELSE LET w1 == ForEachPrediction(NewReply(w),
                                     Value(message).prediction_data)
         IN  Return(ExpectReply(w1, "STATE"))

_handle_reset_message(w, message) ==
    LET w1 == handle_reset_message(w)
        w2 == generate_ready_message(NewReply(w1))
    IN  Return(ExpectReply(w2, "READY"))

_handle_finished_message(w, message) ==
    SetState(handle_finish_message(w), FINISHED)

\* The keys of SimulatorDriverForTraining._active_funcs
ActiveTypes == {"SET_PROPERTIES", "START", "STOP", "PREDICTION", "RESET",
                "FINISHED"}

_handle_runtime_message(w, message) ==
    IF IsNone(message) THEN Raise(w, "EmptyMessageError")
    ELSE LET t == Value(message).message_type
         IN  IF t \notin ActiveTypes THEN Raise(w, "UnexpectedMessageError")
             ELSE IF t = "SET_PROPERTIES"
                  THEN _handle_set_properties_message(w, message)
             ELSE IF t = "START" THEN _handle_start_message(w, message)
             ELSE IF t = "STOP" THEN _handle_stop_message(w, message)
             ELSE IF t = "PREDICTION"
                  THEN _handle_prediction_message(w, message)
             ELSE IF t = "RESET" THEN _handle_reset_message(w, message)
             ELSE _handle_finished_message(w, message)

\* SimulatorDriverForTraining.next
TrainingNext(w, message) ==
    IF w.st = UNREGISTERED THEN _send_register_message(w, message)
    ELSE IF w.st = REGISTERING
         THEN _handle_registration_acknowledgement(w, message)
    ELSE IF w.st = ACTIVE THEN _handle_runtime_message(w, message)
    ELSE IF w.st = FINISHED THEN _do_nothing(w, message)
    ELSE Raise(w, "KeyError")

(* SimulatorDriverForPrediction *)

\* An unset sub-message reads as its default instance, which is truthy.
DefaultDescriptor == [name |-> "", field |-> << >>]
DefaultAcknowledgeRegisterData ==
    [properties_schema |-> DefaultDescriptor,
     output_schema |-> DefaultDescriptor,
     prediction_schema |-> DefaultDescriptor,
     sim_id |-> 0]

AckDataOf(m) ==
    IF IsNone(m.acknowledge_register_data)
    THEN DefaultAcknowledgeRegisterData
    ELSE Value(m.acknowledge_register_data)

Prediction_send_register_message(w, message) ==
    LET w1 == generate_register_message(NewReply(SetState(w, REGISTERING)))
    IN  Return(ExpectReply(w1, "REGISTER"))

Prediction_handle_registration_acknowledgement(w, message) ==
    IF IsNone(message) THEN Raise(w, "AttributeError")
    ELSE IF Value(message).message_type # "ACKNOWLEDGE_REGISTER"
    THEN Raise(w, "RuntimeError")
    ELSE LET w1 == SetState(w, ACTIVE)
             w2 == handle_register_acknowledgement(
                       w1, AckDataOf(Value(message)))
         IN  Return(protocol_generate_state_message(NewReply(w2)))

\* A prediction driver that takes the FINISHED message as the training
\* driver does.
Prediction_handle_prediction_message_finishes(w, message) ==
    IF ~IsNone(message) /\ Value(message).message_type = "FINISHED"
    THEN _handle_finished_message(w, message)
    ELSE _handle_prediction_message(w, message)

Prediction_handle_prediction_message(w, message) ==
    _handle_prediction_message(w, message)

\* SimulatorDriverForPrediction.next
PredictionNext(w, message) ==
    IF w.st = UNREGISTERED THEN Prediction_send_register_message(w, message)
    ELSE IF w.st = REGISTERING
         THEN Prediction_handle_registration_acknowledgement(w, message)
    ELSE IF w.st = ACTIVE
         THEN Prediction_handle_prediction_message(w, message)
    ELSE IF w.st = FINISHED THEN _do_nothing(w, message)
    ELSE Raise(w, "KeyError")

-----------------------------------------------------------------------------
(* State machine: a harness that calls next with any argument *)

\* What the simulator does during one call of next: the outcome of each
\* simulate step, and whether the state map it reports has every field.
Oracles == [terminal : [1..MaxBatch -> BOOLEAN], complete : BOOLEAN]

\* The oracles that differ in a step the call can take: one simulate
\* outcome per entry of the batch.
OraclesFor(message) ==
    LET n == IF IsNone(message) THEN 0
             ELSE Len(Value(message).prediction_data)
    IN  {o \in Oracles : \A i \in 1..MaxBatch : i > n => ~o.terminal[i]}

World(oracle) ==
    [st |-> _state, conn |-> conn, sim |-> sim, reply |-> SimulatorToServer,
     ret |-> None, calls |-> << >>, raised |-> NoError, oracle |-> oracle,
     k |-> 0, fills |-> fills]

\* The assignments one call of next leaves behind.
Apply(w, message) ==
    /\ _state' = w.st
    /\ conn' = w.conn
    /\ sim' = w.sim
    /\ incoming' = message
    /\ pre' = _state
    /\ result' = [raised |-> w.raised, ret |-> w.ret]
    /\ calls' = w.calls
    /\ outgoing' = IF Raised(w) \/ IsNone(w.ret) THEN outgoing
                   ELSE Append(outgoing, Value(w.ret).message_type)
    /\ ncalls' = ncalls + 1

InitDriver ==
    /\ variant \in {"training", "prediction"}
    /\ fills \in BOOLEAN
    /\ _state = UNREGISTERED
    /\ conn = [_properties_schema |-> None, _output_schema |-> None,
               _prediction_schema |-> None, _current_reward_name |-> None,
               _simulator_id |-> None]
    /\ sim = [properties |-> None, _last_actions |-> None, t |-> 0,
              terminal |-> FALSE]
    /\ incoming = None
    /\ pre = UNREGISTERED
    /\ result = [raised |-> NoError, ret |-> None]
    /\ calls = << >>
    /\ outgoing = << >>
    /\ ncalls = 0
    /\ hash = SessionHash
    /\ pool = << >>
    /\ binder = << >>
    /\ bound = << >>

\* No event loop has been started: the settings of a websocket loop with a
\* key, which stay as they are.
TransportIdle ==
    /\ loop = "websocket"
    /\ access_key = TRUE
    /\ co = [pc |-> "idle"]
    /\ connects = 0
    /\ recorder = [pc |-> "idle", read |-> 0, out |-> << >>]

\* No function is under study.
NoCall == input = None /\ output = None

\* No transport: the harness calls next itself.
Init ==
    /\ InitDriver
    /\ TransportIdle
    /\ NoCall
    /\ ws = [status |-> "idle", sent |-> << >>, received |-> 0,
             error |-> NoError]
    /\ recording_file = FALSE
    /\ recording_queue = << >>

TrainingCall ==
    /\ variant = "training"
    /\ ncalls < MaxCalls
    /\ \E message \in Incoming : \E oracle \in OraclesFor(message) :
          Apply(TrainingNext(World(oracle), message), message)
    /\ UNCHANGED <<bvars, tvars, pvars, variant, fills, ws, recording_file, recording_queue>>

PredictionCall ==
    /\ variant = "prediction"
    /\ ncalls < MaxCalls
    /\ \E message \in Incoming : \E oracle \in OraclesFor(message) :
          Apply(PredictionNext(World(oracle), message), message)
    /\ UNCHANGED <<bvars, tvars, pvars, variant, fills, ws, recording_file, recording_queue>>

Next == TrainingCall \/ PredictionCall

Spec == Init /\ [][Next]_vars

-----------------------------------------------------------------------------
(* Websocket transport loop (_Runner of websocket_event_loop)              *)
(*                                                                         *)
(* ws.status: "idle" before run, "connected" once run_forever has the      *)
(* socket, "open" after _on_open, "closed" after ws.close() or a close by  *)
(* the peer, "done" when run has returned.  ws.sent lists the types of the *)
(* frames sent, ws.received counts the frames handed to _on_message, and   *)
(* ws.error is the exception _on_message caught, if any.  An entry of the  *)
(* recording queue is << line >>, and None is the sentinel.                *)

\* MessageToString(message, as_one_line=True), or 'None'; a message whose
\* fields all have their default values has the empty text.
Body(message) ==
    IF IsNone(message) THEN "None"
    ELSE IF Value(message).message_type = "UNKNOWN" THEN ""
    ELSE Value(message).message_type

\* A recorder interface that puts the body before the direction.
_record_body_first(queue, send_or_recv, message) ==
    queue \o <<Some(Body(message)), send_or_recv>>

_record(queue, send_or_recv, message) ==
    queue \o <<send_or_recv, Some(Body(message))>>

_maybe_record(queue, send_or_recv, message) ==
    IF recording_file THEN _record(queue, send_or_recv, message) ELSE queue

\* SimulatorDriverForTraining.next or SimulatorDriverForPrediction.next
DriverNext(w, message) ==
    IF variant = "training" THEN TrainingNext(w, message)
    ELSE PredictionNext(w, message)

\* A loop that answers the FINISHED message like any other incoming.
_handle_message_ignores_finished(w, message) ==
    LET q1 == _maybe_record(recording_queue, Some("RECV"), message)
        q2 == _maybe_record(q1, Some("SEND"), w.ret)
    IN  IF Raised(w)
        THEN [ws |-> [ws EXCEPT !.error = w.raised], queue |-> q1]
        ELSE IF IsNone(w.ret)
        THEN [ws |-> ws, queue |-> q2]
        ELSE [ws |-> [ws EXCEPT !.sent =
                         Append(@, Value(w.ret).message_type)],
              queue |-> q2]

\* The transport after _handle_message(ws, message), where w is the world
\* that self.driver.next(message) leaves: [ws, queue].
_handle_message(w, message) ==
    LET q1 == _maybe_record(recording_queue, Some("RECV"), message)
        q2 == _maybe_record(q1, Some("SEND"), w.ret)
    IN  IF Raised(w)
        THEN [ws |-> [ws EXCEPT !.error = w.raised], queue |-> q1]
        ELSE IF w.st = FINISHED
        THEN [ws |-> [ws EXCEPT !.status = "closed"],
              queue |-> IF recording_file THEN Append(q2, None) ELSE q2]
        ELSE IF IsNone(w.ret)
        THEN [ws |-> [ws EXCEPT !.error = "RuntimeError"], queue |-> q2]
        ELSE [ws |-> [ws EXCEPT !.sent =
                         Append(@, Value(w.ret).message_type)],
              queue |-> q2]

\* except Exception as e: self._on_error(ws, e); ws.close()
CloseOnError(t) ==
    IF t.ws.error # NoError THEN [t EXCEPT !.ws.status = "closed"] ELSE t

InitWs ==
    /\ InitDriver
    /\ TransportIdle
    /\ NoCall
    /\ ws = [status |-> "idle", sent |-> << >>, received |-> 0,
             error |-> NoError]
    /\ recording_file \in BOOLEAN
    /\ recording_queue = << >>

\* run: without an access key RuntimeError is raised before the try block;
\* otherwise ws.run_forever connects, or fails to and returns.
WsRun ==
    /\ loop = "websocket"
    /\ ws.status = "idle"
    /\ IF ~access_key
       THEN /\ ws' = [ws EXCEPT !.status = "failed", !.error = "RuntimeError"]
            /\ connects' = connects
       ELSE /\ connects' = connects + 1
            /\ \E status \in {"connected", "closed"} :
                  ws' = [ws EXCEPT !.status = status]
    /\ UNCHANGED <<bvars, pvars, loop, access_key, co, recorder, variant,
                   fills, _state, conn, sim, incoming, pre, result, calls,
                   outgoing, ncalls, recording_file, recording_queue>>

\* _on_open: self._handle_message(ws, None)
WsOnOpen ==
    /\ loop = "websocket"
    /\ ws.status = "connected"
    /\ ncalls < MaxCalls
    /\ \E oracle \in OraclesFor(None) :
          LET w == DriverNext(World(oracle), None)
              t == _handle_message(w, None)
          IN  /\ Apply(w, None)
              /\ ws' = IF t.ws.status = "connected"
                       THEN [t.ws EXCEPT !.status = "open"] ELSE t.ws
              /\ recording_queue' = t.queue
    /\ UNCHANGED <<bvars, tvars, pvars, variant, fills, recording_file>>

\* _on_message: an empty frame is None, any other is parsed and handled
WsOnMessage ==
    /\ loop = "websocket"
    /\ ws.status = "open"
    /\ ncalls < MaxCalls
    /\ \E message \in Incoming : \E oracle \in OraclesFor(message) :
          LET w == DriverNext(World(oracle), message)
              t == CloseOnError(_handle_message(w, message))
          IN  /\ Apply(w, message)
              /\ ws' = [t.ws EXCEPT !.received = @ + 1]
              /\ recording_queue' = t.queue
    /\ UNCHANGED <<bvars, tvars, pvars, variant, fills, recording_file>>

\* The peer closes the connection.
WsPeerClose ==
    /\ loop = "websocket"
    /\ ws.status \in {"connected", "open"}
    /\ ws' = [ws EXCEPT !.status = "closed"]
    /\ UNCHANGED <<bvars, tvars, pvars, variant, fills, _state, conn, sim, incoming, pre, result,
                   calls, outgoing, ncalls, recording_file, recording_queue>>

\* run_forever returns; finally: self._maybe_record(None, None)
WsRunExit ==
    /\ loop = "websocket"
    /\ ws.status = "closed"
    /\ ws' = [ws EXCEPT !.status = "done"]
    /\ recording_queue' = _maybe_record(recording_queue, None, None)
    /\ UNCHANGED <<bvars, tvars, pvars, variant, fills, _state, conn, sim, incoming, pre, result,
                   calls, outgoing, ncalls, recording_file>>

DriverIdle ==
    /\ variant = "training"
    /\ fills = TRUE
    /\ _state = UNREGISTERED
    /\ conn = [_properties_schema |-> None, _output_schema |-> None,
               _prediction_schema |-> None, _current_reward_name |-> None,
               _simulator_id |-> None]
    /\ sim = [properties |-> None, _last_actions |-> None, t |-> 0,
              terminal |-> FALSE]
    /\ incoming = None
    /\ pre = UNREGISTERED
    /\ result = [raised |-> NoError, ret |-> None]
    /\ calls = << >>
    /\ outgoing = << >>
    /\ ncalls = 0
    /\ ws = [status |-> "idle", sent |-> << >>, received |-> 0,
             error |-> NoError]
    /\ recording_file = FALSE
    /\ recording_queue = << >>
    /\ TransportIdle

\* One thread binds descriptors one after another, in a process with any
\* hash.
InitBind ==
    /\ DriverIdle
    /\ NoCall
    /\ hash \in Hashes
    /\ pool = << >>
    /\ binder = [t \in {1} |-> Idle]
    /\ bound = << >>

\* Two threads bind on the shared pool.
InitRace ==
    /\ DriverIdle
    /\ NoCall
    /\ hash = SessionHash
    /\ pool = << >>
    /\ binder = [t \in {1, 2} |-> Idle]
    /\ bound = << >>

NextBind == BindCall(1) \/ BindFind(1) \/ BindAdd(1) \/ BindReturn(1)

SpecBind == InitBind /\ [][NextBind]_vars

NextRace ==
    \E t \in {1, 2} :
        BindCall(t) \/ BindFind(t) \/ BindAdd(t) \/ BindReturn(t)

SpecRace == InitRace /\ [][NextRace]_vars

NextWs == WsRun \/ WsOnOpen \/ WsOnMessage \/ WsPeerClose \/ WsRunExit

SpecWs == InitWs /\ [][NextWs]_vars

-----------------------------------------------------------------------------
(* Coroutine transport loops (_Runner of tornado_event_loop and of the two *)
(* asyncio_event_loop modules) and the recorder task of every loop         *)
(*                                                                         *)
(* loop names the module: "websocket" (bonsai/websocket_event_loop),       *)
(* "tornado" (python/bonsai/tornado_event_loop), "asyncio"                 *)
(* (python/bonsai/asyncio_event_loop) and "asyncio0"                       *)
(* (bonsai/asyncio_event_loop).  For these loops ws.status is "idle"       *)
(* before run, "connected" while the socket is open, "done" once run has   *)
(* ended after its finally block and "failed" when run raised before its   *)
(* try block.  co.pc is "loop" at the head of the while loop and "recv"    *)
(* while the coroutine awaits a frame.  recording_queue lists every entry  *)
(* put so far and recorder.read counts those the recorder has taken.       *)

Loops == {"websocket", "tornado", "asyncio", "asyncio0"}
AsyncioLoops == {"asyncio", "asyncio0"}

\* _record of a coroutine loop: [queue, raised].  The asyncio loops call
\* message.MessageToString, which no message has.
CoRecord(queue, send_or_recv, message) ==
    IF ~recording_file THEN [queue |-> queue, raised |-> NoError]
    ELSE IF loop \in AsyncioLoops /\ ~IsNone(message)
    THEN [queue |-> Append(queue, send_or_recv), raised |-> "AttributeError"]
    ELSE [queue |-> _record(queue, send_or_recv, message), raised |-> NoError]

\* A loop that goes back to connect when its socket is gone.
CoFinally_reconnects(t, error) ==
    [ws |-> [t.ws EXCEPT !.status = "idle"], queue |-> t.queue, pc |-> "idle"]

\* finally: the sentinel is put when recording, and the socket is closed.
CoFinally(t, error) ==
    [ws |-> [t.ws EXCEPT !.status = "done", !.error = error],
     queue |-> IF recording_file THEN Append(t.queue, None) ELSE t.queue,
     pc |-> "done"]

\* What follows the two _record calls of one turn of the while loop, where
\* w is the world that self.driver.next(input_message) left and sendok
\* tells whether the socket still takes a frame.
CoSend(t, w, sendok) ==
    LET sent == [t EXCEPT !.ws.sent = Append(@, Value(w.ret).message_type)]
        closed == CoFinally(t, "ConnectionClosed")
    IN  IF loop = "asyncio"
        THEN IF ~IsNone(w.ret) /\ ~sendok THEN closed
             ELSE LET u == IF IsNone(w.ret) THEN t ELSE sent
                  IN  IF w.st = FINISHED THEN CoFinally(u, NoError)
                      ELSE [u EXCEPT !.pc = "recv"]
        ELSE IF w.st = FINISHED THEN CoFinally(t, NoError)
        ELSE IF IsNone(w.ret) THEN CoFinally(t, "RuntimeError")
        ELSE IF ~sendok THEN closed
        ELSE [sent EXCEPT !.pc = "recv"]

\* One turn of the while loop of run: [ws, queue, pc].
CoTurn(w, message, sendok) ==
    LET r1 == CoRecord(recording_queue, Some("RECV"), message)
        t1 == [ws |-> ws, queue |-> r1.queue, pc |-> "loop"]
        r2 == CoRecord(r1.queue, Some("SEND"), w.ret)
        t2 == [t1 EXCEPT !.queue = r2.queue]
    IN  IF Raised(w) THEN CoFinally(t1, w.raised)
        ELSE IF r2.raised # NoError THEN CoFinally(t2, r2.raised)
        ELSE CoSend(t2, w, sendok)

\* run, up to the try block: the access key is looked at (not by
\* "asyncio0") and the connection is made, or fails to be.
CoRun ==
    /\ loop # "websocket"
    /\ ws.status = "idle"
    /\ co.pc = "idle"
    /\ IF ~access_key /\ loop # "asyncio0"
       THEN /\ ws' = [ws EXCEPT !.status = "failed", !.error = "RuntimeError"]
            /\ co' = [co EXCEPT !.pc = "done"]
            /\ connects' = connects
       ELSE /\ connects' = connects + 1
            /\ \/ /\ ws' = [ws EXCEPT !.status = "connected"]
                  /\ co' = [co EXCEPT !.pc = "loop"]
               \/ /\ ws' = [ws EXCEPT !.status = "failed",
                                       !.error = "ConnectError"]
                  /\ co' = [co EXCEPT !.pc = "done"]
    /\ UNCHANGED <<bvars, pvars, loop, access_key, recorder, variant, fills,
                   _state, conn, sim, incoming, pre, result, calls, outgoing,
                   ncalls, recording_file, recording_queue>>

\* A turn of the while loop on input_message, up to the await of the next
\* frame or to the end of run.
CoTurnOn(message) ==
    LET r1 == CoRecord(recording_queue, Some("RECV"), message)
    IN  IF r1.raised # NoError
        THEN LET t == CoFinally([ws |-> ws, queue |-> r1.queue], r1.raised)
             IN  /\ ws' = t.ws
                 /\ recording_queue' = t.queue
                 /\ co' = [co EXCEPT !.pc = "done"]
                 /\ UNCHANGED <<_state, conn, sim, incoming, pre, result,
                                calls, outgoing, ncalls>>
        ELSE \E oracle \in OraclesFor(message) : \E sendok \in BOOLEAN :
                LET w == DriverNext(World(oracle), message)
                    t == CoTurn(w, message, sendok)
                IN  /\ Apply(w, message)
                    /\ ws' = [t.ws EXCEPT !.received =
                                 IF co.pc = "recv" THEN @ + 1 ELSE @]
                    /\ recording_queue' = t.queue
                    /\ co' = [co EXCEPT !.pc = t.pc]

\* The first turn of the while loop: input_message is None.
CoFirst ==
    /\ loop # "websocket"
    /\ co.pc = "loop"
    /\ ncalls < MaxTurns
    /\ CoTurnOn(None)
    /\ UNCHANGED <<bvars, pvars, loop, access_key, connects, recorder, variant,
                   fills, recording_file>>

\* recv returns a frame (an empty one is None, any other is parsed) and
\* the while loop takes its next turn.
CoFrame ==
    /\ loop # "websocket"
    /\ co.pc = "recv"
    /\ ncalls < MaxTurns
    /\ \E message \in Incoming : CoTurnOn(message)
    /\ UNCHANGED <<bvars, pvars, loop, access_key, connects, recorder, variant,
                   fills, recording_file>>

\* recv finds the connection closed by the peer: the exception is caught
\* and logged, and the finally block runs.
CoPeerClose ==
    /\ loop # "websocket"
    /\ co.pc = "recv"
    /\ LET t == CoFinally([ws |-> ws, queue |-> recording_queue],
                          "ConnectionClosed")
       IN  /\ ws' = t.ws
           /\ recording_queue' = t.queue
           /\ co' = [co EXCEPT !.pc = t.pc]
    /\ UNCHANGED <<bvars, pvars, loop, access_key, connects, recorder, variant,
                   fills, _state, conn, sim, incoming, pre, result, calls,
                   outgoing, ncalls, recording_file>>

\* record_to_file begins: it returns at once without a recording file,
\* and opens the file otherwise.
RecorderStart ==
    /\ recorder.pc = "idle"
    /\ recorder' = [recorder EXCEPT
                      !.pc = IF recording_file THEN "open" ELSE "done"]
    /\ UNCHANGED <<bvars, pvars, dvars, loop, access_key, co, connects>>

\* The file after one more entry: print ends the line, out.write of the
\* asyncio loops does not.
Written(out, line) ==
    IF loop \in AsyncioLoops /\ out # << >>
    THEN [out EXCEPT ![Len(out)] = Append(@, line)]
    ELSE Append(out, <<line>>)

\* The recorder after it has taken the entries of the queue from the
\* i-th on: `if not line: break` ends the loop and closes the file at the
\* sentinel and at an empty line, any other entry is written.
RECURSIVE Take(_, _)
Take(r, i) ==
    IF i > Len(recording_queue) THEN r
    ELSE IF IsNone(recording_queue[i]) \/ recording_queue[i] = Some("")
    THEN [r EXCEPT !.pc = "done", !.read = i]
    ELSE Take([r EXCEPT !.read = i,
                        !.out = Written(@, Value(recording_queue[i]))],
              i + 1)

\* record_to_file takes the entries that the queue holds.
RecorderGet ==
    /\ recorder.pc = "open"
    /\ recorder.read < Len(recording_queue)
    /\ recorder' = Take(recorder, recorder.read + 1)
    /\ UNCHANGED <<bvars, pvars, dvars, loop, access_key, co, connects>>

\* Any of the four loops is constructed, with or without an access key and
\* a recording file, around a driver whose simulator is the library's own.
InitLoop ==
    /\ InitDriver
    /\ fills = TRUE
    /\ NoCall
    /\ loop \in Loops
    /\ access_key \in BOOLEAN
    /\ recording_file \in BOOLEAN
    /\ co = [pc |-> "idle"]
    /\ connects = 0
    /\ recorder = [pc |-> "idle", read |-> 0, out |-> << >>]
    /\ ws = [status |-> "idle", sent |-> << >>, received |-> 0,
             error |-> NoError]
    /\ recording_queue = << >>

NextLoop ==
    \/ WsRun \/ WsOnOpen \/ WsOnMessage \/ WsPeerClose \/ WsRunExit
    \/ CoRun \/ CoFirst \/ CoFrame \/ CoPeerClose

SpecLoop == InitLoop /\ [][NextLoop]_vars

\* A training session that is recorded, with the recorder task at work.
InitRec ==
    /\ InitLoop
    /\ variant = "training"
    /\ fills = TRUE
    /\ recording_file = TRUE

NextRec == NextLoop \/ RecorderStart \/ RecorderGet

SpecRec == InitRec /\ [][NextRec]_vars

\* Every task that can take a step takes it eventually.
SpecRecFair == SpecRec /\ WF_vars(NextRec)

-----------------------------------------------------------------------------
(* State projector, field by field (convert_state_to_proto)                *)
(*                                                                         *)
(* A state is a function from its keys to values; a value is known by its  *)
(* Python class.  The message filled in is the sequence of the             *)
(* << field name, value >> assignments made, in the order they were made.  *)

FloatTypes == {"DOUBLE", "FLOAT"}
IntegerTypes == {"INT32", "INT64", "SINT32", "SINT64", "UINT32", "UINT64"}

\* A message type that the pool resolves and that has no handler.
OtherType == "p.Other"

inkling_type_proto_handler == {LuminanceType}

SchemaFields ==
    {Field("a", "INT32", ""), Field("b", "FLOAT", ""),
     Field("s", "STRING", ""), Field("t", "BOOL", ""),
     Field("img", "MESSAGE", LuminanceType),
     Field("o", "MESSAGE", OtherType)}

\* state_msg.DESCRIPTOR.fields: up to MaxFields fields of different names
Schemas ==
    {f \in UNION {[1..n -> SchemaFields] : n \in 0..MaxFields} :
        \A i, j \in 1..Len(f) : f[i].name = f[j].name => i = j}

StateValues == {[class |-> "int"], [class |-> "str"], [class |-> "Luminance"]}
StateKeys == {f.name : f \in SchemaFields} \cup {"z"}

\* The states a simulator returns: up to MaxKeys keys.
States ==
    UNION {[K -> StateValues] :
              K \in {k \in SUBSET StateKeys : Cardinality(k) <= MaxKeys}}

NotConverted == [raised |-> NoError, message |-> << >>, msg |-> << >>]

\* A projector that passes over a field the state has no key for.
ConvertField_skips_missing(field, state, r) ==
    IF field.name \notin DOMAIN state THEN r
    ELSE [r EXCEPT !.msg = Append(@, <<field.name, state[field.name]>>)]

\* The body of the loop of convert_state_to_proto for one field, from the
\* outcome r of the fields before it.
ConvertField(field, state, r) ==
    LET name == field.name
        notfound == [r EXCEPT !.raised = "SimStateException",
                              !.message = <<"not found", name>>]
        expected == [r EXCEPT !.raised = "SimStateException",
                              !.message = <<"expected", name>>]
        setattr(v) == [r EXCEPT !.msg = Append(@, <<name, v>>)]
    IN  IF name \notin DOMAIN state THEN notfound
        ELSE LET value == state[name]
             IN  IF field.type = "MESSAGE"
                 THEN IF field.type_name \notin inkling_type_proto_handler
                      THEN [r EXCEPT !.raised = "KeyError",
                                     !.message = <<field.type_name>>]
                      ELSE IF value.class = "Luminance"
                      THEN setattr(value)
                      ELSE expected
                 ELSE IF field.type \in FloatTypes
                 THEN IF value.class \in {"int", "float"}
                      THEN setattr([class |-> "float"])
                      ELSE expected
                 ELSE IF field.type \in IntegerTypes
                 THEN IF value.class \in {"int", "float"}
                      THEN setattr([class |-> "int"])
                      ELSE expected
                 ELSE IF field.type = "BOOL"
                 THEN setattr([class |-> "bool"])
                 ELSE IF field.type = "STRING"
                 THEN setattr([class |-> "str"])
                 ELSE r

RECURSIVE ConvertFrom(_, _, _, _)
ConvertFrom(fields, i, state, r) ==
    IF i > Len(fields) \/ r.raised # NoError THEN r
    ELSE ConvertFrom(fields, i + 1, state, ConvertField(fields[i], state, r))

\* convert_state_to_proto(state_msg, state), on the fields of state_msg
ConvertStateToProto(fields, state) ==
    ConvertFrom(fields, 1, state, NotConverted)

InitConvert ==
    /\ DriverIdle
    /\ hash = SessionHash
    /\ pool = << >>
    /\ binder = << >>
    /\ bound = << >>
    /\ \E fields \in Schemas : \E state \in States :
          input = Some([fields |-> fields, state |-> state])
    /\ output = None

Convert ==
    /\ IsNone(output)
    /\ output' = Some(ConvertStateToProto(Value(input).fields,
                                          Value(input).state))
    /\ UNCHANGED <<bvars, tvars, dvars, input>>

NextConvert == Convert

SpecConvert == InitConvert /\ [][NextConvert]_vars

-----------------------------------------------------------------------------
(* Command line and driver choice (brain_server_connection)                *)
(*                                                                         *)
(* A URL is the sequence of the parts that its slashes separate, the       *)
(* scheme and host being the first.  The arguments of a run are what the   *)
(* command line gives for each flag (None when the flag is absent), the    *)
(* environment of the process, and the object handed in as the simulator.  *)

\* BonsaiConfig().brain_websocket_url() and BonsaiConfig().username()
ConfigBase == "ws://root"
ConfigUser == "test_user"

Urls == {<< >>,
         <<"ws://some_url_here">>,
         <<"ws://h", "v1", "u", "b", "sims", "ws">>,
         <<"ws://h", "v1", "u", "b", "7", "predictions", "ws">>}
Optional(S) == {None} \cup {Some(x) : x \in S}

CommandLines ==
    [train_brain : Optional({"", "cartpole"}),
     predict_brain : Optional({"", "cartpole"}),
     brain_url : Optional(Urls), predict_version : Optional({"", "49"}),
     headless : BOOLEAN, messages_out : Optional({"file"})]

\* os.environ, as far as it names a brain
Environments ==
    [BONSAI_TRAIN_BRAIN : Optional({"cartpole"}),
     BONSAI_PREDICT_BRAIN : Optional({"cartpole"}),
     BONSAI_BRAIN_URL : Optional({<<"ws://test", "v1">>})]

\* str.endswith('/' + the parts of suffix joined by slashes)
EndsWith(url, suffix) ==
    /\ Len(url) > Len(suffix)
    /\ SubSeq(url, Len(url) - Len(suffix) + 1, Len(url)) = suffix

\* The flags of brain_group seen on the command line.
SeenSelectors(args) ==
    {f \in {"train_brain", "predict_brain", "brain_url"} : ~IsNone(args[f])}

\* parse_base_arguments, for the command line args in the environment env:
\* [exit, ret], where exit tells that the parser left through SystemExit
\* and ret is the BaseArguments returned, if any.
parse_base_arguments(args, env) ==
    LET partial_url == <<ConfigBase, "v1", ConfigUser>>
        returns(brain_url) ==
            [exit |-> FALSE,
             ret |-> Some([brain_url |-> brain_url,
                           headless |-> args.headless,
                           recording_file |-> args.messages_out])]
        nothing == [exit |-> FALSE, ret |-> None]
    IN  IF Cardinality(SeenSelectors(args)) # 1
        THEN [exit |-> TRUE, ret |-> None]
        ELSE IF ~IsNone(args.brain_url) /\ Value(args.brain_url) # << >>
        THEN returns(Value(args.brain_url))
        ELSE IF ~IsNone(args.train_brain) /\ Value(args.train_brain) # ""
        THEN returns(partial_url \o <<Value(args.train_brain), "sims", "ws">>)
        ELSE IF ~IsNone(args.predict_brain) /\ Value(args.predict_brain) # ""
        THEN IF IsNone(args.predict_version)
                \/ Value(args.predict_version) = ""
             THEN nothing
             ELSE returns(partial_url \o <<Value(args.predict_brain),
                                           Value(args.predict_version),
                                           "predictions", "ws">>)
        ELSE nothing

\* A choice of driver that never looks at the URL.
_create_driver_for_training(kind, brain_api_url) ==
    [raised |-> NoError, driver |-> Some("SimulatorDriverForTraining")]

\* _create_driver: the class of the driver made, or the error raised
_create_driver(kind, brain_api_url) ==
    LET is_for_training == EndsWith(brain_api_url, <<"sims", "ws">>)
    IN  IF kind = "Simulator"
        THEN [raised |-> NoError,
              driver |-> Some(IF is_for_training
                              THEN "SimulatorDriverForTraining"
                              ELSE "SimulatorDriverForPrediction")]
        ELSE IF kind = "Generator"
        THEN [raised |-> NoError,
              driver |-> Some(IF is_for_training
                              THEN "GeneratorDriverForTraining"
                              ELSE "GeneratorDriverForPrediction")]
        ELSE [raised |-> "RuntimeError", driver |-> None]

InitArgs ==
    /\ DriverIdle
    /\ hash = SessionHash
    /\ pool = << >>
    /\ binder = << >>
    /\ bound = << >>
    /\ \E args \in CommandLines : \E env \in Environments :
       \E kind \in {"Simulator", "Generator", "object"} :
          input = Some([args |-> args, env |-> env, kind |-> kind])
    /\ output = None

\* run_for_training_or_prediction: base_arguments = parse_base_arguments()
ParseBaseArguments ==
    /\ IsNone(output)
    /\ output' = Some([base_arguments |->
                          parse_base_arguments(Value(input).args,
                                               Value(input).env),
                       created |-> None])
    /\ UNCHANGED <<bvars, tvars, dvars, input>>

\* run_with_url, when base_arguments is not None: driver = _create_driver
CreateDriver ==
    /\ ~IsNone(output)
    /\ IsNone(Value(output).created)
    /\ ~IsNone(Value(output).base_arguments.ret)
    /\ output' = Some([Value(output) EXCEPT !.created =
          Some(_create_driver(Value(input).kind,
                   Value(Value(output).base_arguments.ret).brain_url))])
    /\ UNCHANGED <<bvars, tvars, dvars, input>>

NextArgs == ParseBaseArguments \/ CreateDriver

SpecArgs == InitArgs /\ [][NextArgs]_vars

-----------------------------------------------------------------------------
(* Brain.stop_training (brain.py)                                          *)
(*                                                                         *)
(* input is the Brain object: state is self.state as refresh_status left   *)
(* it, and stops counts the stop requests put to the server.  output is    *)
(* the call of stop_training: pc is "while" at the head of the loop,       *)
(* "after" behind it and "done" when the call is over; delay is kept in    *)
(* half seconds (0.5 s is 1, 2 s is 4, 20 s is 40); polls counts the       *)
(* calls of refresh_status; raised is the exception the call ended with.   *)
(* The server answers every request, with any state.                       *)

\* constants for brain state
BrainStates == {"Inkling Loaded", "Not Started", "Starting", "In Progress",
                "Completed", "Finishing"}

InitBrain ==
    /\ DriverIdle
    /\ hash = SessionHash
    /\ pool = << >>
    /\ binder = << >>
    /\ bound = << >>
    /\ \E state \in BrainStates : input = Some([state |-> state, stops |-> 0])
    /\ output = Some([pc |-> "while", delay |-> 1, polls |-> 0,
                      raised |-> NoError])

\* One turn of the while loop: refresh_status, break when Completed, a stop
\* request when In Progress, sleep, delay += 2; the loop is left when delay
\* is no longer below 20.
StopTrainingPoll ==
    /\ ~IsNone(output)
    /\ Value(output).pc = "while"
    /\ Value(output).delay < 40
    /\ \E state \in BrainStates :
          /\ input' = Some([state |-> state,
                            stops |-> IF state = "In Progress"
                                      THEN Value(input).stops + 1
                                      ELSE Value(input).stops])
          /\ output' = Some(
                IF state = "Completed"
                THEN [Value(output) EXCEPT !.polls = @ + 1, !.pc = "after"]
                ELSE [Value(output) EXCEPT
                         !.polls = @ + 1,
                         !.delay = @ + 4,
                         !.pc = IF Value(output).delay + 4 < 40
                                THEN "while" ELSE "after"])
    /\ UNCHANGED <<bvars, tvars, dvars>>

\* After the loop: if self.state == COMPLETED: raise Exception
StopTrainingEnd ==
    /\ ~IsNone(output)
    /\ Value(output).pc = "after"
    /\ output' = Some([Value(output) EXCEPT
                          !.pc = "done",
                          !.raised = IF Value(input).state = "Completed"
                                     THEN "Exception" ELSE NoError])
    /\ UNCHANGED <<bvars, tvars, dvars, input>>

NextBrain == StopTrainingPoll \/ StopTrainingEnd

SpecBrain == InitBrain /\ [][NextBrain]_vars

-----------------------------------------------------------------------------
(* Reading the record of the last call *)

IsConn(c) == c.obj = "connection"
IsSim(c) == c.obj = "simulator"
AdapterCalls == SelectSeq(calls, IsConn)
SimulatorCalls == SelectSeq(calls, IsSim)
Fns(s) == [i \in 1..Len(s) |-> s[i].fn]
Count(s, fn) == Cardinality({i \in 1..Len(s) : s[i].fn = fn})
Position(s, fn) == CHOOSE i \in 1..Len(s) : s[i].fn = fn

Called == ncalls > 0
Returned == Called /\ result.raised = NoError
ReturnedMessage == Returned /\ ~IsNone(result.ret)
Reply == Value(result.ret)
GotMessage == Called /\ ~IsNone(incoming)
Msg == Value(incoming)

-----------------------------------------------------------------------------
(* C1 *)

\* C1: the first call of next on a fresh driver of either variant, whatever
\* its argument, returns a REGISTER message carrying the simulator name and
\* moves the driver from UNREGISTERED to REGISTERING; the first message a
\* driver returns is never of another type.
C1_FirstOutgoingIsRegister ==
    /\ ncalls = 1 =>
          /\ pre = UNREGISTERED
          /\ _state = REGISTERING
          /\ ReturnedMessage
          /\ Reply.message_type = "REGISTER"
          /\ Reply.register_data = Some([simulator_name |-> SimulatorName])
    /\ outgoing # << >> => outgoing[1] = "REGISTER"

C1_Witness ==
    /\ ncalls = 1
    /\ GotMessage
    /\ Msg.message_type = "START"
    /\ outgoing = <<"REGISTER">>

-----------------------------------------------------------------------------
(* C2 *)

\* C2: a call of next never moves the driver state backward in the order
\* UNREGISTERED < REGISTERING < ACTIVE < FINISHED, and a call made in
\* FINISHED, whatever its argument, returns None, makes no adapter callback
\* and leaves the state FINISHED.
C2_ForwardOnlyFinishedTerminal ==
    [][/\ _state' >= _state
       /\ _state' \in {UNREGISTERED, REGISTERING, ACTIVE, FINISHED}
       /\ _state = FINISHED =>
             /\ _state' = FINISHED
             /\ result' = [raised |-> NoError, ret |-> None]
             /\ calls' = << >>]_vars

C2_Witness ==
    /\ Called
    /\ pre = FINISHED
    /\ _state = FINISHED
    /\ GotMessage
    /\ Msg.message_type = "START"

-----------------------------------------------------------------------------
(* C3 *)

IsAck(message) ==
    /\ ~IsNone(message)
    /\ Value(message).message_type = "ACKNOWLEDGE_REGISTER"
    /\ ~IsNone(Value(message).acknowledge_register_data)

AckCall(data) ==
    [obj |-> "connection", fn |-> "handle_register_acknowledgement",
     arg |-> Some(data)]

ReadyCall ==
    [obj |-> "connection", fn |-> "generate_ready_message", arg |-> None]

\* C3: a training driver in REGISTERING that is handed an
\* ACKNOWLEDGE_REGISTER with acknowledge_register_data calls
\* handle_register_acknowledgement exactly once, with that data and before
\* anything else, and moves to ACTIVE; when that handler returns, the driver
\* calls generate_ready_message next and nothing else, and returns a READY.
C3_AckThenReady ==
    (Called /\ variant = "training" /\ pre = REGISTERING /\ IsAck(incoming)) =>
        /\ _state = ACTIVE
        /\ Len(AdapterCalls) >= 1
        /\ AdapterCalls[1] = AckCall(Value(Msg.acknowledge_register_data))
        /\ Count(AdapterCalls, "handle_register_acknowledgement") = 1
        /\ result.raised \in {NoError, "BindError"}
        /\ result.raised = NoError =>
              /\ AdapterCalls =
                    <<AckCall(Value(Msg.acknowledge_register_data)), ReadyCall>>
              /\ ReturnedMessage
              /\ Reply.message_type = "READY"

C3_Witness ==
    /\ Called /\ variant = "training" /\ pre = REGISTERING /\ IsAck(incoming)
    /\ ReturnedMessage
    /\ Reply.message_type = "READY"
    /\ _state = ACTIVE

-----------------------------------------------------------------------------
(* C4 *)

ConnRecord(fn, arg) == [obj |-> "connection", fn |-> fn, arg |-> arg]
SimRecord(fn, arg) == [obj |-> "simulator", fn |-> fn, arg |-> arg]

\* The adapter handler and the simulator callback that belong to a
\* SET_PROPERTIES, STOP or RESET message.
HandlerOf(m) ==
    IF m.message_type = "SET_PROPERTIES"
    THEN ConnRecord("handle_set_properties_message", m.set_properties_data)
    ELSE IF m.message_type = "STOP"
    THEN ConnRecord("handle_stop_message", None)
    ELSE ConnRecord("handle_reset_message", None)

CallbackOf(m) ==
    IF m.message_type = "SET_PROPERTIES" THEN "set_properties"
    ELSE IF m.message_type = "STOP" THEN "stop"
    ELSE "reset"

ReadyCase ==
    /\ Called /\ variant = "training" /\ pre = ACTIVE /\ GotMessage
    /\ \/ Msg.message_type \in {"STOP", "RESET"}
       \/ /\ Msg.message_type = "SET_PROPERTIES"
          /\ ~IsNone(Msg.set_properties_data)

\* C4: a training driver in ACTIVE that is handed SET_PROPERTIES (with
\* set_properties_data), STOP or RESET calls the matching adapter handler
\* first and exactly once, calls no other handler (only
\* generate_ready_message may follow), reaches no simulator callback but the
\* matching one, and stays ACTIVE; when the callbacks return, the calls are
\* exactly the handler and generate_ready_message and the reply is a READY.
C4_ActiveReadyReplies ==
    ReadyCase =>
        /\ _state = ACTIVE
        /\ Len(AdapterCalls) \in {1, 2}
        /\ AdapterCalls[1] = HandlerOf(Msg)
        /\ Len(AdapterCalls) = 2 => AdapterCalls[2] = ReadyCall
        /\ Len(SimulatorCalls) <= 1
        /\ \A i \in 1..Len(SimulatorCalls) :
              SimulatorCalls[i].fn = CallbackOf(Msg)
        /\ result.raised = NoError =>
              /\ Len(AdapterCalls) = 2
              /\ Len(SimulatorCalls) = 1
              /\ ReturnedMessage
              /\ Reply.message_type = "READY"

C4_Witness ==
    /\ ReadyCase
    /\ Msg.message_type = "SET_PROPERTIES"
    /\ ReturnedMessage
    /\ Reply.message_type = "READY"
    /\ Fns(calls) = <<"handle_set_properties_message", "set_properties",
                      "generate_ready_message">>

-----------------------------------------------------------------------------
(* C5 *)

StartCase ==
    /\ Called /\ variant = "training" /\ pre = ACTIVE /\ GotMessage
    /\ Msg.message_type = "START"

\* C5: a training driver in ACTIVE that is handed START calls
\* handle_start_message (simulator.start) before the simulator state is
\* read, reads it at most once and stays ACTIVE; when the call returns, the
\* adapter calls are exactly handle_start_message and
\* generate_state_message, and the reply is a STATE whose single state_data
\* entry is built from the one get_state call.
C5_StartThenState ==
    StartCase =>
        /\ _state = ACTIVE
        /\ Len(calls) >= 2
        /\ calls[1] = ConnRecord("handle_start_message", None)
        /\ calls[2] = SimRecord("start", None)
        /\ Count(calls, "start") = 1
        /\ Count(calls, "get_state") <= 1
        /\ result.raised = NoError =>
              /\ Fns(AdapterCalls) =
                    <<"handle_start_message", "generate_state_message">>
              /\ Count(calls, "get_state") = 1
              /\ Position(calls, "start") < Position(calls, "get_state")
              /\ ReturnedMessage
              /\ Reply.message_type = "STATE"
              /\ Len(Reply.state_data) = 1
              /\ Reply.state_data[1].state.val = sim.t
              /\ Reply.state_data[1].terminal = sim.terminal

C5_Witness ==
    /\ StartCase
    /\ ReturnedMessage
    /\ Reply.message_type = "STATE"
    /\ Len(Reply.state_data) = 1

-----------------------------------------------------------------------------
(* C6 *)

PredictionCase ==
    /\ Called /\ pre = ACTIVE /\ GotMessage
    /\ Msg.message_type = "PREDICTION"
    /\ Len(Msg.prediction_data) >= 1

\* The adapter calls a batch asks for: per entry, in order,
\* handle_prediction_message(entry), advance, generate_state_message.
ExpectedCalls(batch) ==
    [i \in 1..(3 * Len(batch)) |->
        IF i % 3 = 1
        THEN ConnRecord("handle_prediction_message",
                        Some(batch[(i + 2) \div 3]))
        ELSE IF i % 3 = 2 THEN ConnRecord("advance", None)
        ELSE ConnRecord("generate_state_message", None)]

\* C6: a driver of either variant in ACTIVE that is handed a PREDICTION with
\* n >= 1 entries makes, in the order of the entries, the calls
\* handle_prediction_message(entry), advance, generate_state_message and no
\* other adapter call, and stays ACTIVE; when the callbacks return it has
\* made all 3n calls and returns one STATE message, whose state_data (with
\* the adapter that appends one entry per generate_state_message) has
\* exactly n entries, the i-th carrying the i-th prediction as action_taken.
C6_PredictionBatch ==
    PredictionCase =>
        LET batch == Msg.prediction_data
            n == Len(batch)
        IN  /\ _state = ACTIVE
            /\ Len(AdapterCalls) <= 3 * n
            /\ \A i \in 1..Len(AdapterCalls) :
                  AdapterCalls[i] = ExpectedCalls(batch)[i]
            /\ result.raised = NoError =>
                  /\ Len(AdapterCalls) = 3 * n
                  /\ ReturnedMessage
                  /\ Reply.message_type = "STATE"
                  /\ fills =>
                        /\ Len(Reply.state_data) = n
                        /\ \A i \in 1..n :
                              /\ ~IsNone(Reply.state_data[i].action_taken)
                              /\ Value(Reply.state_data[i].action_taken).val
                                    = batch[i].dynamic_prediction

C6_Witness ==
    /\ PredictionCase
    /\ Len(Msg.prediction_data) = 2
    /\ Msg.prediction_data[1] # Msg.prediction_data[2]
    /\ ReturnedMessage
    /\ Len(Reply.state_data) = 2

-----------------------------------------------------------------------------
(* C9 *)

\* C9: every READY message the driver returns carries the message type and
\* the session id and nothing else: no register_data and no state_data
\* entry.
C9_ReadyHasNoPayload ==
    (ReturnedMessage /\ Reply.message_type = "READY") =>
        /\ IsNone(Reply.register_data)
        /\ Reply.state_data = << >>
        /\ ~IsNone(Reply.sim_id)
        /\ Reply.sim_id = conn._simulator_id

C9_Witness ==
    /\ ReturnedMessage
    /\ Reply.message_type = "READY"
    /\ pre = ACTIVE
    /\ outgoing[Len(outgoing) - 1] = "STATE"

-----------------------------------------------------------------------------
(* C7 *)

\* C7: when the FINISHED message reaches a training driver in ACTIVE through
\* the transport loop, the driver calls handle_finish_message exactly once
\* (and nothing else), returns None and enters FINISHED; the loop sends no
\* frame for it, closes the connection and, when recording, puts the
\* sentinel on the recording queue; and once the connection is closed no
\* frame is received or sent and next is not called again.
C7_FinishEndsSession ==
    [][/\ ( /\ variant = "training"
            /\ _state = ACTIVE
            /\ ncalls' = ncalls + 1
            /\ ~IsNone(incoming')
            /\ Value(incoming').message_type = "FINISHED" ) =>
               /\ calls' = <<ConnRecord("handle_finish_message", None)>>
               /\ result' = [raised |-> NoError, ret |-> None]
               /\ _state' = FINISHED
               /\ ws'.sent = ws.sent
               /\ ws'.status = "closed"
               /\ recording_file =>
                     recording_queue'[Len(recording_queue')] = None
       /\ ws.status \in {"closed", "done"} =>
               /\ ws'.status \in {"closed", "done"}
               /\ ws'.received = ws.received
               /\ ws'.sent = ws.sent
               /\ ncalls' = ncalls]_vars

C7_Witness ==
    /\ variant = "training"
    /\ pre = ACTIVE
    /\ _state = FINISHED
    /\ GotMessage
    /\ Msg.message_type = "FINISHED"
    /\ ws.status = "done"
    /\ recording_file
    /\ \E i \in 1..Len(recording_queue) : recording_queue[i] = None

-----------------------------------------------------------------------------
(* C8 *)

\* C8: every message of type STATE that next returns has at least one
\* state_data entry (a reply composed as STATE without one is not returned:
\* next raises MalformedMessageError instead).
C8_StateReplyHasData ==
    (ReturnedMessage /\ Reply.message_type = "STATE") =>
        Len(Reply.state_data) >= 1

-----------------------------------------------------------------------------
(* C10 *)

\* The incoming types a variant handles in ACTIVE.
HandledInActive ==
    IF variant = "training" THEN ActiveTypes ELSE {"PREDICTION"}

\* C10: a driver of either variant in ACTIVE that is handed a message of a
\* type the variant does not handle raises UnexpectedMessageError, makes no
\* adapter call and stays ACTIVE.
C10_UnexpectedTypeInActive ==
    ( /\ Called /\ pre = ACTIVE /\ GotMessage
      /\ Msg.message_type \notin HandledInActive ) =>
        /\ result.raised = "UnexpectedMessageError"
        /\ AdapterCalls = << >>
        /\ _state = ACTIVE

-----------------------------------------------------------------------------
(* C11 *)

\* C11: a driver of either variant in REGISTERING or ACTIVE that is handed
\* None raises EmptyMessageError and no other kind of error, makes no
\* adapter call and keeps its state.
C11_NoneRaisesEmptyMessageError ==
    (Called /\ pre \in {REGISTERING, ACTIVE} /\ IsNone(incoming)) =>
        /\ result.raised = "EmptyMessageError"
        /\ AdapterCalls = << >>
        /\ _state = pre

-----------------------------------------------------------------------------
(* C12 *)

\* The message is of a type the variant accepts in the state the call was
\* made in, and lacks the sub-payload of that type.
LacksPayload ==
    /\ GotMessage
    /\ \/ /\ pre = REGISTERING
          /\ Msg.message_type = "ACKNOWLEDGE_REGISTER"
          /\ IsNone(Msg.acknowledge_register_data)
       \/ /\ pre = ACTIVE /\ variant = "training"
          /\ Msg.message_type = "SET_PROPERTIES"
          /\ IsNone(Msg.set_properties_data)
       \/ /\ pre = ACTIVE
          /\ Msg.message_type = "PREDICTION"
          /\ Msg.prediction_data = << >>

\* C12: a driver of either variant that is handed a message of an accepted
\* type without its sub-payload (ACKNOWLEDGE_REGISTER without
\* acknowledge_register_data, SET_PROPERTIES without set_properties_data,
\* PREDICTION without prediction_data entries) raises MalformedMessageError
\* before any adapter call and keeps its state.
C12_MissingPayloadIsMalformed ==
    LacksPayload =>
        /\ result.raised = "MalformedMessageError"
        /\ AdapterCalls = << >>
        /\ _state = pre

-----------------------------------------------------------------------------
(* C13 *)

\* The adapter handlers and simulator callbacks of the training table that
\* the prediction table has no row for.
TrainingOnly ==
    {"handle_set_properties_message", "handle_start_message",
     "handle_stop_message", "handle_reset_message", "handle_finish_message",
     "set_properties", "start", "stop"}

\* A reset in the record was made by Simulation.advance itself (it follows
\* the simulator's advance), not by a handler of the adapter.
ResetOnlyWithinAdvance ==
    \A i \in 1..Len(calls) :
        (IsSim(calls[i]) /\ calls[i].fn = "reset") =>
            /\ i > 1
            /\ IsSim(calls[i - 1])
            /\ calls[i - 1].fn = "advance"

\* C13: a prediction driver in REGISTERING answers the acknowledgement with
\* a STATE (not a READY) built from one get_state call and becomes ACTIVE;
\* in ACTIVE the only incoming it processes is PREDICTION, which it answers
\* with a STATE; and no call makes it reach start, stop, reset,
\* set_properties or handle_finish_message.
C13_PredictionTable ==
    (Called /\ variant = "prediction") =>
        /\ (pre = REGISTERING /\ IsAck(incoming)) =>
              /\ _state = ACTIVE
              /\ result.raised = NoError =>
                    /\ ReturnedMessage
                    /\ Reply.message_type = "STATE"
                    /\ Count(AdapterCalls, "generate_ready_message") = 0
                    /\ fills => /\ Count(calls, "get_state") = 1
                                /\ Len(Reply.state_data) = 1
        /\ (pre = ACTIVE /\ (AdapterCalls # << >> \/ Returned)) =>
              /\ GotMessage
              /\ Msg.message_type = "PREDICTION"
              /\ Returned => /\ ReturnedMessage
                             /\ Reply.message_type = "STATE"
        /\ \A i \in 1..Len(calls) : calls[i].fn \notin TrainingOnly
        /\ ResetOnlyWithinAdvance
        /\ _state # FINISHED

-----------------------------------------------------------------------------
(* C14 *)

\* The position in the record of the k-th call of fn on obj.
NthCall(obj, fn, k) ==
    CHOOSE j \in 1..Len(calls) :
        /\ calls[j].obj = obj /\ calls[j].fn = fn
        /\ Cardinality({h \in 1..j : calls[h].obj = obj
                                      /\ calls[h].fn = fn}) = k

\* A batch whose i-th step ended the episode and that has a later entry.
TerminalThenPrediction(i) ==
    /\ PredictionCase /\ fills /\ ReturnedMessage
    /\ i < Len(Msg.prediction_data)
    /\ Reply.state_data[i].terminal

\* C14: when the SimState last returned by get_state had is_terminal true
\* and a prediction follows, the simulator's reset is called before the
\* action is handed to the simulator's advance, and the following state is
\* that of a fresh episode.
C14_ResetBeforeAdvance ==
    \A i \in 1..MaxBatch :
        TerminalThenPrediction(i) =>
            /\ \E j \in 1..Len(calls) :
                  /\ calls[j] = SimRecord("reset", None)
                  /\ NthCall("simulator", "get_state", i) < j
                  /\ j < NthCall("simulator", "advance", i + 1)
            /\ Reply.state_data[i + 1].state.val = 0
            /\ ~Reply.state_data[i + 1].terminal

-----------------------------------------------------------------------------
(* C15 *)

\* The last call was made in ACTIVE by a training driver with a
\* SET_PROPERTIES that carries set_properties_data.
SetPropertiesCase ==
    /\ Called /\ variant = "training" /\ pre = ACTIVE /\ GotMessage
    /\ Msg.message_type = "SET_PROPERTIES"
    /\ ~IsNone(Msg.set_properties_data)

\* The reward name the adapter holds names an accessor.
RewardNamed ==
    /\ ~IsNone(conn._current_reward_name)
    /\ Value(conn._current_reward_name) # ""

IsNotify(c) == c.fn = "notify_prediction_received"
IsHandlePrediction(c) == c.fn = "handle_prediction_message"

\* The predictions the simulator was notified of in the last call, and the
\* entries of the batch handed to the adapter.
Notified == SelectSeq(SimulatorCalls, IsNotify)
Handled == SelectSeq(AdapterCalls, IsHandlePrediction)

\* C15: a handled SET_PROPERTIES has called simulator.set_properties once
\* with the properties decoded by the properties schema, leaves the reward
\* name of the message as the current one and the prediction schema of the
\* message as the bound one; no call other than a SET_PROPERTIES (or the
\* acknowledgement) changes either, every prediction is decoded with the
\* bound prediction schema, and every state_data entry carries the result
\* of the accessor named by the current reward name, or 0 when none is.
C15_SetPropertiesRebinds ==
    [][/\ (SetPropertiesCase' /\ Returned') =>
             LET data == Value(Msg'.set_properties_data)
             IN  /\ SimulatorCalls' =
                       <<SimRecord("set_properties",
                            Some(ParseFromString(
                                     Value(conn._properties_schema),
                                     data.dynamic_properties)))>>
                 /\ conn'._current_reward_name = Some(data.reward_name)
                 /\ conn'._prediction_schema =
                        reconstitute(data.prediction_schema)
       /\ (pre' # REGISTERING /\ ~SetPropertiesCase') =>
             /\ conn'._current_reward_name = conn._current_reward_name
             /\ conn'._prediction_schema = conn._prediction_schema
       /\ Len(Notified') <= Len(Handled')
       /\ \A i \in 1..Len(Notified') :
             Notified'[i].arg =
                 Some(ParseFromString(Value(conn._prediction_schema),
                                      Value(Handled'[i].arg)
                                          .dynamic_prediction))
       /\ (ReturnedMessage' /\ fills) =>
             /\ Len(Notified') = Len(Handled')
             /\ \A i \in 1..Len(Reply'.state_data) :
                   Reply'.state_data[i].reward =
                       IF RewardNamed' THEN 1 ELSE 0
             /\ RewardNamed' =>
                   Count(SimulatorCalls',
                         Value(conn'._current_reward_name))
                       = Len(Reply'.state_data)]_vars

C15_Witness ==
    /\ PredictionCase /\ variant = "training" /\ ReturnedMessage
    /\ conn._prediction_schema = reconstitute(PredictionDescriptor2)
    /\ Len(Notified) >= 1
    /\ Value(Notified[1].arg).keys = {"b", "c"}
    /\ Len(Reply.state_data) >= 1
    /\ Reply.state_data[1].reward = 0

-----------------------------------------------------------------------------
(* C16 *)

\* C16: the session id is stored once, by the acknowledgement handled in
\* REGISTERING, as the sim_id of that acknowledgement, and never changes
\* afterwards; the acknowledgement handler runs at most once per driver
\* (only in REGISTERING, which the driver then leaves); every READY and
\* STATE the driver returns carries that id and a REGISTER carries none.
C16_SessionIdEchoed ==
    [][/\ ~IsNone(conn._simulator_id) =>
             conn'._simulator_id = conn._simulator_id
       /\ conn'._simulator_id # conn._simulator_id =>
             /\ _state = REGISTERING
             /\ GotMessage'
             /\ conn'._simulator_id = Some(AckDataOf(Msg').sim_id)
       /\ Count(AdapterCalls', "handle_register_acknowledgement")
             <= (IF _state = REGISTERING THEN 1 ELSE 0)
       /\ Count(AdapterCalls', "handle_register_acknowledgement") = 1 =>
             _state' = ACTIVE
       /\ ReturnedMessage' =>
             /\ Reply'.message_type = "REGISTER" => IsNone(Reply'.sim_id)
             /\ ( \/ Reply'.message_type = "READY"
                  \/ (Reply'.message_type = "STATE" /\ fills) ) =>
                   /\ ~IsNone(Reply'.sim_id)
                   /\ Reply'.sim_id = conn'._simulator_id]_vars

C16_Witness ==
    /\ ReturnedMessage
    /\ Reply.message_type = "STATE"
    /\ Reply.sim_id = Some(AckGood.sim_id)
    /\ outgoing = <<"REGISTER", "READY", "READY", "STATE">>

-----------------------------------------------------------------------------
(* C17 *)

\* handle_register_acknowledgement has completed: the session id is the
\* last thing it stores, after the three schemas.
AckCompleted ==
    /\ ~IsNone(conn._simulator_id)
    /\ ~IsNone(conn._properties_schema)
    /\ ~IsNone(conn._output_schema)
    /\ ~IsNone(conn._prediction_schema)

\* The last call used a schema: it decoded properties (and handed them to
\* the simulator), decoded a prediction, or serialized a state.
SchemaUsed ==
    /\ Called
    /\ \/ Count(SimulatorCalls, "set_properties") > 0
       \/ Count(SimulatorCalls, "notify_prediction_received") > 0
       \/ (ReturnedMessage /\ Reply.state_data # << >>)

\* C17: in every sequence of calls, those after a failed call included,
\* the adapter decodes properties, decodes predictions and serializes
\* states only once handle_register_acknowledgement has completed.
C17_SchemaBoundBeforeUse == SchemaUsed => AckCompleted

-----------------------------------------------------------------------------
(* C18 *)

\* The structural fingerprint of the i-th descriptor bound: the hash of its
\* field tuples.
Fingerprint(i) == hash[Elements(bound[i].d)]

\* C18 (as stated): two calls of reconstitute return the same class if and
\* only if the fingerprints of their descriptors are equal.
C18_SameClassIffFingerprint ==
    \A i, j \in 1..Len(bound) :
        bound[i].cls = bound[j].cls <=> Fingerprint(i) = Fingerprint(j)

\* C18 (amended): two calls of reconstitute by one thread return the same
\* class if and only if their descriptors have the same name (an empty
\* name counting as the anonymous name) and equal fingerprints; binding
\* the same descriptor twice returns the same class.
C18_SameClassIffNameAndFingerprint ==
    \A i, j \in 1..Len(bound) :
        bound[i].cls = bound[j].cls <=>
            /\ NameOf(bound[i].d) = NameOf(bound[j].d)
            /\ Fingerprint(i) = Fingerprint(j)

C18_Witness ==
    /\ Len(bound) = 2
    /\ bound[1].d = bound[2].d
    /\ bound[1].cls = bound[2].cls
    /\ Len(pool) = 1

-----------------------------------------------------------------------------
(* C19 *)

\* C19: two descriptors that differ in their name or in their field tuples
\* bind to distinct classes, in any order and whatever was bound before.
C19_DistinctDescriptorsDistinctClasses ==
    \A i, j \in 1..Len(bound) :
        ( \/ bound[i].d.name # bound[j].d.name
          \/ bound[i].d.field # bound[j].d.field ) =>
            bound[i].cls # bound[j].cls

-----------------------------------------------------------------------------
(* C20 *)

\* Both threads have come back from reconstitute, called on descriptors of
\* the same full name.
BothBoundSameName ==
    /\ \A t \in {1, 2} : binder[t].pc = "idle" /\ binder[t].n >= 1
    /\ FullName(Value(binder[1].d)) = FullName(Value(binder[2].d))

\* C20: when two threads run reconstitute on descriptors of the same name
\* and fingerprint, in every interleaving neither fails, both return the
\* same class, and the pool holds one descriptor of that full name.
C20_RacingBindersConverge ==
    BothBoundSameName =>
        /\ \A t \in {1, 2} : binder[t].raised = NoError
        /\ binder[1].cls = binder[2].cls
        /\ Cardinality({i \in 1..Len(pool) :
                pool[i].full_name = FullName(Value(binder[1].d))}) = 1

-----------------------------------------------------------------------------
(* C22 *)

Converted == ~IsNone(output)
Schema == Value(input).fields
Mapping == Value(input).state
Out == Value(output)
SchemaNames == [i \in 1..Len(Schema) |-> Schema[i].name]
Missing == {i \in 1..Len(Schema) : Schema[i].name \notin DOMAIN Mapping}
FirstMissing == CHOOSE i \in Missing : \A j \in Missing : i <= j

\* The fields are visited in declaration order: the assignments made are
\* those of a prefix of the schema's fields, in that order.
VisitedInOrder ==
    /\ Len(Out.msg) <= Len(Schema)
    /\ \A i \in 1..Len(Out.msg) : Out.msg[i][1] = SchemaNames[i]

\* The keys of the state that are not fields of the schema do not matter.
ExtraKeysIgnored ==
    LET known == DOMAIN Mapping \cap {Schema[i].name : i \in 1..Len(Schema)}
    IN  Out = ConvertStateToProto(Schema, [k \in known |-> Mapping[k]])

\* C22 (as stated): the fields are visited in declaration order; when the
\* state lacks a key for a schema field, SimStateException is raised and
\* names a field that has no key; keys that are not schema fields change
\* nothing.
C22_MissingKeyRaisesStateError ==
    Converted =>
        /\ VisitedInOrder
        /\ Missing # {} =>
              /\ Out.raised = "SimStateException"
              /\ Out.message = <<"not found", SchemaNames[FirstMissing]>>
        /\ ExtraKeysIgnored

\* C22 (amended): the same, for a missing field that is reached: when the
\* fields declared before the first field without a key convert without
\* an error, SimStateException is raised and names that field.
C22_FirstMissingKeyRaisesStateError ==
    Converted =>
        /\ VisitedInOrder
        /\ ( /\ Missing # {}
             /\ ConvertStateToProto(SubSeq(Schema, 1, FirstMissing - 1),
                                    Mapping).raised = NoError ) =>
              /\ Out.raised = "SimStateException"
              /\ Out.message = <<"not found", SchemaNames[FirstMissing]>>
              /\ Len(Out.msg) = FirstMissing - 1
        /\ ExtraKeysIgnored

C22_Witness ==
    /\ Converted
    /\ Len(Schema) = 2
    /\ Missing = {2}
    /\ "z" \in DOMAIN Mapping
    /\ Out.raised = "SimStateException"
    /\ Out.message = <<"not found", SchemaNames[2]>>
    /\ Len(Out.msg) = 1

-----------------------------------------------------------------------------
(* C29 *)

Parsed == ~IsNone(output)
Args == Value(input).args
Env == Value(input).env
BaseArguments == Value(output).base_arguments

\* The brain selectors that are set, on the command line or through the
\* environment.
SelectorsSet ==
    {f \in {"train_brain", "predict_brain", "brain_url"} : ~IsNone(Args[f])}
    \cup (IF IsNone(Env.BONSAI_TRAIN_BRAIN) THEN {} ELSE {"train_brain"})
    \cup (IF IsNone(Env.BONSAI_PREDICT_BRAIN) THEN {} ELSE {"predict_brain"})
    \cup (IF IsNone(Env.BONSAI_BRAIN_URL) THEN {} ELSE {"brain_url"})

\* C29: parse_base_arguments exits with an error unless exactly one brain
\* selector is set, on the command line and in the environment together,
\* and exits with an error when the selector is --predict-brain and no
\* predict version is given.
C29_ExactlyOneSelector ==
    Parsed =>
        /\ Cardinality(SelectorsSet) # 1 => BaseArguments.exit
        /\ ( /\ SelectorsSet = {"predict_brain"}
             /\ IsNone(Args.predict_version) ) => BaseArguments.exit

-----------------------------------------------------------------------------
(* C30 *)

Returned_url == Value(BaseArguments.ret).brain_url
Created == Parsed /\ ~IsNone(Value(output).created)
Driver == Value(Value(output).created).driver

\* The URL returned is the one given, or the one composed for the brain.
UrlAsGiven ==
    ( Parsed /\ ~IsNone(BaseArguments.ret) ) =>
        /\ ~IsNone(Args.brain_url) => Returned_url = Value(Args.brain_url)
        /\ ~IsNone(Args.train_brain) =>
              Returned_url = <<ConfigBase, "v1", ConfigUser,
                               Value(Args.train_brain), "sims", "ws">>
        /\ ~IsNone(Args.predict_brain) =>
              Returned_url = <<ConfigBase, "v1", ConfigUser,
                               Value(Args.predict_brain),
                               Value(Args.predict_version),
                               "predictions", "ws">>

ForSimulator == Created /\ Value(input).kind = "Simulator"

\* C30 (as stated): the URL is returned as given or composed; and the
\* driver made for a simulator is the training driver exactly when the URL
\* ends with /sims/ws, the prediction driver exactly when it ends with
\* /predictions/ws.
C30_DriverBySuffix ==
    /\ UrlAsGiven
    /\ ForSimulator =>
          /\ Driver = Some("SimulatorDriverForTraining")
                <=> EndsWith(Returned_url, <<"sims", "ws">>)
          /\ Driver = Some("SimulatorDriverForPrediction")
                <=> EndsWith(Returned_url, <<"predictions", "ws">>)

\* C30 (amended): the URL is returned as given or composed; and the driver
\* made for a simulator is the training driver exactly when the URL ends
\* with /sims/ws, the prediction driver for every other URL.
C30_TrainingBySuffix ==
    /\ UrlAsGiven
    /\ ForSimulator =>
          /\ Driver = Some("SimulatorDriverForTraining")
                <=> EndsWith(Returned_url, <<"sims", "ws">>)
          /\ Driver = Some("SimulatorDriverForPrediction")
                <=> ~EndsWith(Returned_url, <<"sims", "ws">>)

C30_Witness ==
    /\ ForSimulator
    /\ Args.predict_brain = Some("cartpole")
    /\ Returned_url = <<ConfigBase, "v1", ConfigUser, "cartpole", "49",
                        "predictions", "ws">>
    /\ Driver = Some("SimulatorDriverForPrediction")

-----------------------------------------------------------------------------
(* C21 *)

\* The step is a call of next, in REGISTERING, on an acknowledgement whose
\* output schema refers to a type the pool does not know.
UnboundAckStep ==
    /\ ncalls' = ncalls + 1
    /\ _state = REGISTERING
    /\ ~IsNone(incoming')
    /\ Value(incoming').message_type = "ACKNOWLEDGE_REGISTER"
    /\ Value(incoming').acknowledge_register_data = Some(AckBad)

\* C21: when the acknowledgement of the registration carries a schema that
\* refers to an unknown type, binding fails with an error, no frame is
\* sent for it, the connection is closed, and the recording gets the RECV
\* entry of the acknowledgement and then, with no SEND entry in between,
\* the sentinel.
C21_UnboundAckClosesSession ==
    [][/\ UnboundAckStep =>
              /\ result'.raised = "BindError"
              /\ ws'.sent = ws.sent
              /\ ws'.status \in {"closed", "done"}
              /\ recording_file =>
                    \E tail \in {<< >>, <<None>>} :
                        recording_queue' = recording_queue \o
                            <<Some("RECV"), Some("ACKNOWLEDGE_REGISTER")>> \o
                            tail
       /\ ( /\ ws.status = "closed"
            /\ recording_queue' # recording_queue ) =>
              recording_queue'[Len(recording_queue) + 1] = None]_vars

C21_Witness ==
    /\ recording_file
    /\ pre = REGISTERING
    /\ GotMessage
    /\ Msg.message_type = "ACKNOWLEDGE_REGISTER"
    /\ Msg.acknowledge_register_data = Some(AckBad)
    /\ result.raised = "BindError"
    /\ ws.status = "done"
    /\ ws.sent = <<"REGISTER">>
    /\ recording_queue[Len(recording_queue)] = None
       \/ recording_queue[Len(recording_queue) - 1] = None

-----------------------------------------------------------------------------
(* C23 *)

\* C23: in every loop the first frame on the connection is the REGISTER
\* that next(None) returned, sent before any frame is received; from then
\* on a frame is received only after a frame was sent and at most one
\* frame is sent for each frame received; and next is called once for
\* the opening and once for each frame received.
C23_RegisterThenAlternate ==
    /\ ws.received <= Len(ws.sent)
    /\ Len(ws.sent) <= ws.received + 1
    /\ Len(ws.sent) >= 1 => ws.sent[1] = "REGISTER"
    /\ ncalls >= 1 => ncalls = ws.received + 1
    /\ ( /\ ncalls = 1
         /\ Returned
         /\ ws.error # "ConnectionClosed" ) => ws.sent = <<"REGISTER">>

-----------------------------------------------------------------------------
(* C24 *)

\* The entries put on the recording queue before the first sentinel.
Entries ==
    LET stops == {i \in 1..Len(recording_queue) : IsNone(recording_queue[i])}
    IN  IF stops = {} THEN recording_queue
        ELSE SubSeq(recording_queue, 1,
                    (CHOOSE i \in stops : \A j \in stops : i <= j) - 1)

IsDirection(e) == e \in {Some("RECV"), Some("SEND")}

\* C24: with recording on, the directions put on the queue alternate and
\* begin with RECV, each followed by a body: a call of next is preceded by
\* the RECV entry of its message and followed, when it returns, by SEND;
\* so a SEND comes right after the RECV entry that induced it, and no two
\* RECV and no two SEND are adjacent.
C24_RecvBeforeSend ==
    [][recording_file =>
         /\ \A p \in 1..Len(Entries') :
               /\ p % 4 = 1 => Entries'[p] = Some("RECV")
               /\ p % 4 = 3 => Entries'[p] = Some("SEND")
               /\ p % 2 = 0 => ~IsDirection(Entries'[p])
         /\ ncalls' = ncalls + 1 =>
               /\ Len(recording_queue') >= Len(recording_queue) + 2
               /\ recording_queue'[Len(recording_queue) + 1] = Some("RECV")
               /\ recording_queue'[Len(recording_queue) + 2] =
                     Some(Body(incoming'))
               /\ result'.raised = NoError =>
                     recording_queue'[Len(recording_queue) + 3] = Some("SEND")
         /\ ncalls' = ncalls =>
               \A p \in Len(recording_queue) + 1..Len(recording_queue') :
                   ~IsDirection(recording_queue'[p])]_vars

C24_Witness ==
    /\ recording_file
    /\ Len(Entries) >= 8
    /\ Entries[5] = Some("RECV")
    /\ Entries[6] = Some("ACKNOWLEDGE_REGISTER")
    /\ Entries[7] = Some("SEND")
    /\ Entries[8] = Some("READY")

-----------------------------------------------------------------------------
(* C25 *)

\* The recorder has left its loop and closed the file.
FileClosed == recorder.pc = "done" /\ recording_file

\* C25: in every loop the recording file holds the entries put on the
\* queue before the sentinel, one on each line and in the order they were
\* put; a session of k exchanges that all completed gives 4k lines.
C25_FileIsTheQueue ==
    FileClosed =>
        /\ recorder.out = [i \in 1..Len(Entries) |-> <<Value(Entries[i])>>]
        /\ ( ws.error = NoError /\ result.raised = NoError ) =>
              Len(recorder.out) = 4 * ncalls

-----------------------------------------------------------------------------
(* C26 *)

\* run has ended: after its finally block, or by an exception raised
\* before its try block.
RunOver == ws.status \in {"done", "failed"}

SentinelPut == \E i \in 1..Len(recording_queue) : IsNone(recording_queue[i])

\* C26: with recording on, whichever way run ends, the sentinel gets put
\* on the queue and the recorder then leaves its loop and closes the file.
C26_RecorderEnds == RunOver ~> (SentinelPut /\ recorder.pc = "done")

-----------------------------------------------------------------------------
(* C27 *)

\* C27: in every loop, without an access key run fails before it tries to
\* connect and before next is called: no connection attempt is made, and
\* once run has begun it has failed with RuntimeError.
C27_NoKeyNoConnection ==
    ~access_key =>
        /\ connects = 0
        /\ ncalls = 0
        /\ ws.status \in {"idle", "failed"}
        /\ ws.status = "failed" => ws.error = "RuntimeError"

-----------------------------------------------------------------------------
(* C28 *)

Over == {"closed", "done", "failed"}

\* C28: when the peer closes the connection, in whatever state the driver
\* is, the loop ends: from then on next is not called, no frame is sent
\* or received, and no second connection is attempted in the run.
C28_PeerCloseEndsRun ==
    [][/\ ws.status \in Over =>
              /\ ws'.status \in Over
              /\ ncalls' = ncalls
              /\ ws'.sent = ws.sent
              /\ ws'.received = ws.received
              /\ connects' = connects
       /\ ws'.error = "ConnectionClosed" => ws'.status = "done"
       /\ connects' <= 1]_vars

C28_Witness ==
    /\ _state = REGISTERING
    /\ ws.error = "ConnectionClosed"
    /\ ws.status = "done"
    /\ ws.sent = <<"REGISTER">>
    /\ ncalls = 1
    /\ connects = 1

-----------------------------------------------------------------------------
(* C31 *)

\* C31: a driver of either variant in REGISTERING that is handed a message
\* whose type is not ACKNOWLEDGE_REGISTER, with acknowledge_register_data
\* or without, raises an error, does not call
\* handle_register_acknowledgement and stays in REGISTERING; it reaches
\* ACTIVE only on a message of type ACKNOWLEDGE_REGISTER.
C31_OnlyAckLeavesRegistering ==
    (/\ GotMessage
     /\ pre = REGISTERING
     /\ Msg.message_type # "ACKNOWLEDGE_REGISTER") =>
        /\ result.raised # NoError
        /\ Count(AdapterCalls, "handle_register_acknowledgement") = 0
        /\ _state = REGISTERING

-----------------------------------------------------------------------------
(* C32 *)

\* The fields of embedded MESSAGE type that the projector reaches with a
\* key in the state: those before it convert without an error.
ReachedEmbedded ==
    {i \in 1..Len(Schema) :
        /\ Schema[i].type = "MESSAGE"
        /\ Schema[i].name \in DOMAIN Mapping
        /\ ConvertStateToProto(SubSeq(Schema, 1, i - 1),
                               Mapping).raised = NoError}

\* C32: for a field of embedded MESSAGE type, the value is copied when the
\* referenced type is the luminance type and the value is a Luminance;
\* SimStateException is raised when the value is not a Luminance, and
\* SimStateException is raised as well when the referenced type name has
\* no registered handler.
C32_EmbeddedFieldOrStateError ==
    Converted =>
        \A i \in ReachedEmbedded :
            LET field == Schema[i]
                value == Mapping[field.name]
            IN  IF field.type_name # LuminanceType
                THEN Out.raised = "SimStateException"
                ELSE IF value.class = "Luminance"
                THEN /\ Len(Out.msg) >= i
                     /\ Out.msg[i] = <<field.name, value>>
                ELSE /\ Out.raised = "SimStateException"
                     /\ Out.message = <<"expected", field.name>>
                     /\ Len(Out.msg) = i - 1

-----------------------------------------------------------------------------
(* C33 *)

\* The entries put on the recording queue that the recorder has not taken.
Waiting == Len(recording_queue) - recorder.read

\* C33: the entries waiting in the recording queue never exceed a fixed
\* capacity, put suspending the producer when the recorder falls behind.
\* Whatever the capacity, a session cannot put the entries of MaxTurns whole
\* exchanges (four entries each) while the recorder takes none of them.
C33_QueueBounded == Waiting < 4 * MaxTurns

-----------------------------------------------------------------------------
(* C34 *)

StopTraining == Value(output)
Brain == Value(input)

\* C34: stop_training polls the status at most 10 times, puts a stop
\* request only on a poll that observes In Progress, returns normally when
\* the brain has reached Completed, and raises only when the brain is still
\* not Completed after the last poll.
C34_StopTrainingBoundedPolls ==
    [][/\ StopTraining'.polls <= 10
       /\ StopTraining'.polls \in {StopTraining.polls, StopTraining.polls + 1}
       /\ Brain'.stops # Brain.stops =>
             /\ StopTraining'.polls = StopTraining.polls + 1
             /\ Brain'.stops = Brain.stops + 1
             /\ Brain'.state = "In Progress"
       /\ StopTraining'.pc = "done" =>
             /\ Brain'.state = "Completed" => StopTraining'.raised = NoError
             /\ StopTraining'.raised # NoError =>
                   /\ Brain'.state # "Completed"
                   /\ StopTraining'.polls = 10]_vars

-----------------------------------------------------------------------------
(* C35 *)

\* C35: whenever a call of next raises, for either variant and in any
\* state, the driver's state after the call is the state before it: a
\* failure inside handle_register_acknowledgement leaves the driver in
\* REGISTERING, one inside generate_register_message in UNREGISTERED.
C35_ErrorLeavesStateUnchanged ==
    (Called /\ result.raised # NoError) => _state = pre

-----------------------------------------------------------------------------
(* C36 *)

\* The last call serialized the simulator's last action into the
\* action_taken of the entry it appended last.
ActionSerialized ==
    /\ ReturnedMessage
    /\ Reply.state_data # << >>
    /\ ~IsNone(Reply.state_data[Len(Reply.state_data)].action_taken)

\* The fields of the prediction schema in force are those of the schema
\* that decoded the simulator's last action.
SchemaOfLastAction ==
    /\ ~IsNone(conn._prediction_schema)
    /\ ~IsNone(sim._last_actions)
    /\ FieldNames(Value(conn._prediction_schema)) = Value(sim._last_actions).keys

\* C36: whenever generate_state_message serializes the simulator's last
\* action into action_taken, the prediction schema in force is the one the
\* action was decoded with: no sequence PREDICTION, SET_PROPERTIES (with a
\* different prediction schema), START has an action of the old schema
\* serialized under the new one, or a state error because the old action
\* lacks fields of the new schema.
C36_ActionSerializedUnderItsSchema ==
    /\ ActionSerialized => SchemaOfLastAction
    /\ (/\ Called
        /\ result.raised = "SimStateException"
        /\ ~IsNone(sim._last_actions)
        /\ ~IsNone(conn._prediction_schema)) =>
           FieldNames(Value(conn._prediction_schema))
               \subseteq Value(sim._last_actions).keys

-----------------------------------------------------------------------------
(* C37 *)

\* Every state_data entry of the reply carries action_taken, or none does.
EntriesCarryAction(present) ==
    \A i \in 1..Len(Reply.state_data) :
        IsNone(Reply.state_data[i].action_taken) = ~present

\* The entries of the reply carry action_taken exactly when the simulator
\* holds a last action, which it does once a prediction has been handled.
CarriedIffHandled ==
    ReturnedMessage => EntriesCarryAction(~IsNone(sim._last_actions))

\* The training driver has answered a START in ACTIVE with a STATE.
StartAnswered ==
    /\ variant = "training"
    /\ pre = ACTIVE
    /\ GotMessage
    /\ Msg.message_type = "START"
    /\ ReturnedMessage
    /\ Reply.state_data # << >>

\* C37: a state_data entry carries action_taken if and only if a prediction
\* has been handled since the simulator was created; the stored last
\* action is changed only by handle_prediction_message, and START, STOP,
\* RESET, SET_PROPERTIES and FINISHED leave it as it is, so that the STATE
\* reply to the START of a later episode still carries the last action of
\* the episode before.
C37_LastActionOnlyByPrediction ==
    [][/\ sim'._last_actions # sim._last_actions =>
             /\ Count(AdapterCalls', "handle_prediction_message") > 0
             /\ Count(SimulatorCalls', "notify_prediction_received") > 0
       /\ ~IsNone(sim._last_actions) => ~IsNone(sim'._last_actions)
       /\ IsNone(sim'._last_actions) =>
             ~\E i \in 1..Len(calls') :
                 calls'[i].fn = "notify_prediction_received"
       /\ CarriedIffHandled'
       /\ (/\ variant = "training"
           /\ pre' = ACTIVE
           /\ GotMessage'
           /\ Msg'.message_type \in {"START", "STOP", "RESET",
                                     "SET_PROPERTIES", "FINISHED"}) =>
             sim'._last_actions = sim._last_actions
       /\ (StartAnswered' /\ ~IsNone(sim._last_actions)) =>
             Reply'.state_data[1].action_taken =
                 convert_state_to_proto(Value(conn'._prediction_schema),
                                        Value(sim._last_actions))]_vars

\* The START of a second episode is answered with the last action of the
\* first, which ended with a terminal state.
C37_Witness ==
    /\ StartAnswered
    /\ ~IsNone(Reply.state_data[1].action_taken)
    /\ ~IsNone(sim._last_actions)
    /\ sim.t > 0

-----------------------------------------------------------------------------
(* C38 *)

\* C38: the recorder writes every entry put on the queue before the first
\* null sentinel and stops only at that sentinel: an entry with the empty
\* text (a message with no printable fields) does not make it leave early.
C38_RecorderStopsOnlyAtSentinel ==
    FileClosed =>
        /\ SentinelPut
        /\ recorder.read = Len(Entries) + 1
        /\ Len(recorder.out) > 0 =>
              Len(recorder.out[1]) >= 1
        /\ \A i \in 1..Len(Entries) :
              \E l \in 1..Len(recorder.out) :
                 \E c \in 1..Len(recorder.out[l]) :
                    recorder.out[l][c] = Value(Entries[i])

-----------------------------------------------------------------------------
(* C39 *)

\* What a turn of the while loop that called next does to the socket and
\* to the coroutine when nothing is recorded: [ws, queue, pc].
UnrecordedTurn(sendok) ==
    LET w == [st |-> _state', ret |-> result'.ret, raised |-> result'.raised]
        t == [ws |-> ws, queue |-> << >>, pc |-> "loop"]
    IN  IF Raised(w) THEN CoFinally(t, w.raised) ELSE CoSend(t, w, sendok)

\* A step of a coroutine loop that is under way.
CoStep == loop # "websocket" /\ co.pc \in {"loop", "recv"} /\ co' # co

\* C39: recording is transparent to the session.  With a recording file,
\* on the same frames, every loop makes the calls of next and sends the
\* frames that it makes and sends without one: a step of a coroutine loop
\* that does not call next is the close of the connection while a frame is
\* awaited, a turn that calls next leaves the socket and the coroutine as
\* the same turn does when nothing is recorded, and an error that ends the
\* session is the one next raised, the closed connection or the missing
\* reply, never one of the recorder.
C39_RecordingIsTransparent ==
    [][recording_file =>
         /\ (CoStep /\ ncalls' = ncalls) =>
               /\ co.pc = "recv"
               /\ ws'.error = "ConnectionClosed"
         /\ (CoStep /\ ncalls' = ncalls + 1) =>
               \E sendok \in BOOLEAN :
                  /\ ws'.status = UnrecordedTurn(sendok).ws.status
                  /\ ws'.sent = UnrecordedTurn(sendok).ws.sent
                  /\ ws'.error = UnrecordedTurn(sendok).ws.error
                  /\ co'.pc = UnrecordedTurn(sendok).pc
         /\ (ws'.error # ws.error /\ ws.status \in {"connected", "open"}) =>
               ws'.error \in {result'.raised, "ConnectionClosed",
                              "RuntimeError"}]_vars

-----------------------------------------------------------------------------
(* C40 *)

\* The session of a loop has come to its end in this step.
SessionEnds ==
    /\ ws.status \in {"connected", "open"}
    /\ ws'.status \in {"closed", "done"}

\* C40: the prediction driver never enters FINISHED: whatever messages
\* come in, FINISHED messages included, its state stays ACTIVE once it is
\* ACTIVE, so the transport loop of a prediction session ends only through
\* a closed connection or an error, never through the clean FINISHED
\* shutdown.
C40_PredictionNeverFinishes ==
    [][variant = "prediction" =>
         /\ _state' # FINISHED
         /\ _state = ACTIVE => _state' = ACTIVE
         /\ SessionEnds =>
               \/ ws'.error # NoError
               \/ ncalls' = ncalls]_vars

\* A FINISHED message has reached the ACTIVE prediction driver, which is
\* still ACTIVE; the loop has ended with the error that next raised.
C40_Witness ==
    /\ variant = "prediction"
    /\ pre = ACTIVE
    /\ GotMessage
    /\ Msg.message_type = "FINISHED"
    /\ _state = ACTIVE
    /\ ws.status \in {"closed", "done"}
    /\ ws.error = result.raised
    /\ result.raised # NoError

====
